---- MODULE Spec2Model ----
(***************************************************************************)
(* Model of tinyland-analytics: the MDsveX document writer/reader           *)
(* (src/src/mdsvex-writer.ts), the buffered real-time writer                *)
(* (real-time-writer.ts, src/unnamed/part_001 lines 524-754), the database  *)
(* converter (src/src/converter.ts) and getTopItems of the query service    *)
(* (src/unnamed/part_001 lines 158-203).                                    *)
(*                                                                          *)
(* Time.  A timestamp is a number of hours since the epoch (UTC).  The      *)
(* process has a fixed timezone offset tz (hours); the local fields of a    *)
(* Date (getFullYear, getMonth, getHours) are taken from ts + tz, the ISO   *)
(* string (toISOString) from ts.  The calendar is scaled down: a month has  *)
(* DaysPerMonth days.                                                       *)
(***************************************************************************)
EXTENDS Integers, Sequences, FiniteSets, TLC

\* ------------------------------------------------------------------ bounds
DaysPerMonth == 2        \* days in a (scaled-down) calendar month
MaxTracks == 2           \* track calls in one run of Spec
MaxParticipants == 1     \* largest `participants` passed to trackEvent
MaxFaults == 1           \* storage operations that fail in one run
MaxFlights == 1          \* flushAnalyticsBuffer executions in flight at once
MaxOverlap == 2          \* the same, in the runs with overlapping flushes
MaxTimers == 2           \* interval timers the runtime can hold
MaxDevTracks == 11       \* track calls in one run of SpecDev
MaxLen == 3              \* records in one direct writeAnalyticsToMDsveX call
MaxValue == 2            \* largest record value in a direct write
MaxSignedLen == 2        \* records in one direct write of signed values
MaxReadLen == 2          \* records in the write of a write-then-read run
MaxWrites == 2           \* direct writes in one run of SpecStore or SpecDocs
MaxRows == 2             \* rows a query of a single conversion returns
MaxAllRows == 1          \* rows a query of convertAllAnalytics returns
MaxRepeats == 2          \* calls of a converter over the same rows
MaxMonthRows == 2        \* rows a query returns in the runs of SpecConvertAll
MaxConverts == 1         \* converter calls in one run
MaxLimit == 2            \* largest `limit` passed to getTopItems
MaxDays == 2             \* largest `days` passed to getTrendingAnalytics
MaxQueryWrites == 2      \* direct writes in one run of SpecQuery

\* ------------------------------------------------------- program constants
HoursPerDay == 24
DaysPerWeek == 7
EpochWeekday == 4         \* getDay() of the first of January of Year0, a Thursday
MonthsPerYear == 12
Year0 == 2026            \* the year of month index 0
PageViewThreshold == 10
EventThreshold == 5
UserActivityThreshold == 10
TopPathsLimit == 10

PV == "page-views"
EV == "events"
UA == "user-activity"
Types == {PV, EV, UA}
AllTypes == <<PV, EV, UA>>

TZOffsets == {-1, 0, 1}

\* The instants the clock passes through: the last hour of the first month
\* and the first hour of the second month (UTC).
Instants == <<DaysPerMonth * HoursPerDay - 1,
              DaysPerMonth * HoursPerDay>>

\* The timestamps of the records handed to a direct write: the first two
\* hours of a UTC day (a local midnight lies between them west of UTC) and
\* the two sides of the month end.
DataInstants == {HoursPerDay, HoursPerDay + 1,
                 DaysPerMonth * HoursPerDay - 1, DaysPerMonth * HoursPerDay}

\* new Date().toISOString() as written to lastUpdated.  The time of a write
\* is not modelled: every lastUpdated is the same text.
IsoNow == "iso-timestamp"

\* ------------------------------------------------------------ Date methods
\* date.toISOString().split('T')[0]: the UTC calendar date, as
\* <<year, month, day-of-month>>; the empty string is <<>>.
IsoDate(ts) ==
  LET d == ts \div HoursPerDay
      m == d \div DaysPerMonth
  IN <<Year0 + (m \div MonthsPerYear), (m % MonthsPerYear) + 1, (d % DaysPerMonth) + 1>>

\* date.getHours(), date.getFullYear(), date.getMonth() + 1: local time.
GetHours(ts, tz) == (ts + tz) % HoursPerDay
LocalMonthIndex(ts, tz) == ((ts + tz) \div HoursPerDay) \div DaysPerMonth
GetFullYear(ts, tz) == Year0 + (LocalMonthIndex(ts, tz) \div MonthsPerYear)
GetMonth1(ts, tz) == (LocalMonthIndex(ts, tz) % MonthsPerYear) + 1

\* new Date(year, month - 1): local midnight of the first of the month.
NewDate(year, month, tz) ==
  (((year - Year0) * MonthsPerYear + (month - 1)) * DaysPerMonth * HoursPerDay) - tz

\* -------------------------------------------------------------- aggregator
RECURSIVE SumValues(_)
SumValues(data) ==
  IF data = <<>> THEN 0 ELSE data[1].value + SumValues(Tail(data))

\* Variant: counts the records instead of adding their values.
TotalCountOfRecords(data) == Len(data)

\* const totalCount = data.reduce((sum, item) => sum + item.value, 0)
TotalCount(data) == SumValues(data)

\* Variant: the set is built from the timestamps, not from their dates.
UniqueTimestamps(data) == Cardinality({data[i].timestamp : i \in DOMAIN data})

\* new Set(data.map(item => item.timestamp.toISOString().split('T')[0])).size
UniqueDays(data) == Cardinality({IsoDate(data[i].timestamp) : i \in DOMAIN data})

\* Math.round(x / y) for y > 0: the nearest integer, halves towards +infinity
MathRound(x, y) == (2 * x + y) \div (2 * y)

AverageDaily(data) ==
  IF UniqueDays(data) > 0 THEN MathRound(TotalCount(data), UniqueDays(data)) ELSE 0

\* The keys of an object built by a reduce over data, in insertion order
\* (string keys that are not array indices keep insertion order).
RECURSIVE InsertionOrder(_, _)
InsertionOrder(keys, acc) ==
  IF keys = <<>> THEN acc
  ELSE IF \E i \in DOMAIN acc : acc[i] = keys[1]
       THEN InsertionOrder(Tail(keys), acc)
       ELSE InsertionOrder(Tail(keys), Append(acc, keys[1]))

DayKeys(data) == InsertionOrder([i \in DOMAIN data |-> IsoDate(data[i].timestamp)], <<>>)

SelectDay(data, day) == SelectSeq(data, LAMBDA r : IsoDate(r.timestamp) = day)
DailyTotal(data, day) == SumValues(SelectDay(data, day))

\* Variant: among equal totals the last key in entry order comes first.
PeakDayLastOfTies(data) ==
  LET keys == DayKeys(data) IN
  IF keys = <<>> THEN <<>>
  ELSE LET best == CHOOSE i \in DOMAIN keys :
                     /\ \A j \in DOMAIN keys : DailyTotal(data, keys[j]) <= DailyTotal(data, keys[i])
                     /\ \A j \in (i + 1)..Len(keys) : DailyTotal(data, keys[j]) < DailyTotal(data, keys[i])
       IN keys[best]

\* Object.entries(dailyTotals).sort(([, a], [, b]) => b - a)[0]?.[0] || ''
\* Array.prototype.sort is stable: among equal totals the first key in
\* entry order stays first.
PeakDay(data) ==
  LET keys == DayKeys(data) IN
  IF keys = <<>> THEN <<>>
  ELSE LET best == CHOOSE i \in DOMAIN keys :
                     /\ \A j \in DOMAIN keys : DailyTotal(data, keys[j]) <= DailyTotal(data, keys[i])
                     /\ \A j \in 1..(i - 1) : DailyTotal(data, keys[j]) < DailyTotal(data, keys[i])
       IN keys[best]

HourlyTotal(data, tz, h) ==
  SumValues(SelectSeq(data, LAMBDA r : GetHours(r.timestamp, tz) = h))

HourKeys(data, tz) == {GetHours(data[i].timestamp, tz) : i \in DOMAIN data}

\* Object.entries(hourlyTotals).sort(([, a], [, b]) => b - a)[0]?.[0] || '0',
\* then parseInt.  The keys of hourlyTotals are integer-like, so
\* Object.entries yields them in ascending numeric order, whatever the order
\* of insertion; the stable sort keeps the smallest hour among equal totals.
PeakHour(data, tz) ==
  LET keys == HourKeys(data, tz) IN
  IF keys = {} THEN 0
  ELSE CHOOSE h \in keys :
         /\ \A g \in keys : HourlyTotal(data, tz, g) <= HourlyTotal(data, tz, h)
         /\ \A g \in keys : g < h => HourlyTotal(data, tz, g) < HourlyTotal(data, tz, h)

\* -------------------------------------------------------- document codec
Null == [kind |-> "null"]
NoExtra == [k \in {} |-> 0]

\* month.toString().padStart(2, '0'): the two digits of the month
PadStart2(n) == IF n < 10 THEN <<0, n>> ELSE <<n \div 10, n % 10>>

\* path.join(cwd, basePath, type, year.toString(), `${monthPadded}.mdx`)
FilePath(type, year, month) == <<type, year, PadStart2(month)>>

\* The frontmatter fields whose values are strings in the writer, and the
\* fields the converter sets to an array of objects or to an object.
StringFields == {"type", "peakDay", "lastUpdated"}
ArrayFields == {"topPaths"}
ObjectFields == {"eventTypes", "activityTypes"}

\* What `${value}` makes of a plain object
ObjectObject == "[object Object]"

\* `${value}`: a number or a string as it is; an array as its elements'
\* texts joined by commas (here: the sequence of them); an object as
\* "[object Object]".
TemplateText(key, value) ==
  IF key \in ArrayFields THEN [i \in DOMAIN value |-> ObjectObject]
  ELSE IF key \in ObjectFields THEN <<ObjectObject>>
  ELSE value

\* How the text reads: "number" when Number(text) is a number written with
\* digits, "empty" for the empty text, "other" for any other text.  Of the
\* string fields only peakDay can be empty.
Lexeme(key, value) ==
  IF key \in {"peakDay"} \cup ArrayFields
  THEN (IF value = <<>> THEN "empty" ELSE "other")
  ELSE IF key \in StringFields \cup ObjectFields THEN "other"
  ELSE "number"

\* `${key}: ${typeof value === 'string' ? `"${value}"` : value}`
EncodeValue(key, value) ==
  [quoted |-> key \in StringFields, lex |-> Lexeme(key, value),
   text |-> TemplateText(key, value)]

\* Variant: no sniffing of the value type, every value is read as a string.
DecodeValueAsString(e) == [kind |-> "string", val |-> e.text]

\* The value-type sniffing of readAnalyticsFromMDsveX: a quoted text is a
\* string; a bare text that Number() accepts is a number (the empty text
\* is 0); any other bare text is a string.
DecodeValue(e) ==
  IF e.quoted THEN [kind |-> "string", val |-> e.text]
  ELSE IF e.lex = "number" THEN [kind |-> "number", val |-> e.text]
  ELSE IF e.lex = "empty" THEN [kind |-> "number", val |-> 0]
  ELSE [kind |-> "string", val |-> e.text]

\* { type, year, ..., lastUpdated, ...additionalFrontmatter }
BaseFrontmatter(type, date, data, tz) ==
  [type |-> type,
   year |-> GetFullYear(date, tz),
   month |-> GetMonth1(date, tz),
   totalCount |-> TotalCount(data),
   uniqueCount |-> UniqueDays(data),
   averageDaily |-> AverageDaily(data),
   peakDay |-> PeakDay(data),
   peakHour |-> PeakHour(data, tz),
   lastUpdated |-> IsoNow]

MergeFrontmatter(base, extra) ==
  [k \in DOMAIN base \cup DOMAIN extra |-> IF k \in DOMAIN extra THEN extra[k] ELSE base[k]]

\* formatAnalyticsData: one section per UTC day, ascending by day, with the
\* day's total and number of data points.
RECURSIVE SortDays(_)
SortDays(days) ==
  IF days = {} THEN <<>>
  ELSE LET least == CHOOSE d \in days : \A e \in days :
                      \/ d[1] < e[1]
                      \/ d[1] = e[1] /\ d[2] < e[2]
                      \/ d[1] = e[1] /\ d[2] = e[2] /\ d[3] <= e[3]
       IN <<least>> \o SortDays(days \ {least})

FormatAnalyticsData(data) ==
  LET days == SortDays({IsoDate(data[i].timestamp) : i \in DOMAIN data})
  IN [i \in DOMAIN days |->
        [day |-> days[i],
         total |-> DailyTotal(data, days[i]),
         points |-> Len(SelectDay(data, days[i]))]]

\* The document text: the header lines between the --- delimiters, then
\* the daily breakdown.
DocumentContent(type, date, data, extra, tz) ==
  LET fm == MergeFrontmatter(BaseFrontmatter(type, date, data, tz), extra)
  IN [header |-> [k \in DOMAIN fm |-> EncodeValue(k, fm[k])],
      body |-> FormatAnalyticsData(data)]

WritePath(type, date, tz) == FilePath(type, GetFullYear(date, tz), GetMonth1(date, tz))

\* fs.mkdir(path.dirname(filePath), { recursive: true })
MakeDir(ds, path) == ds \cup {<<path[1], path[2]>>}

\* Variant: a document that exists keeps the header fields the new content
\* does not set.
WriteFileKeepingFields(files, path, content) ==
  [p \in DOMAIN files \cup {path} |->
     IF p # path THEN files[p]
     ELSE IF path \notin DOMAIN files THEN content
     ELSE [header |-> [k \in DOMAIN files[p].header \cup DOMAIN content.header |->
                         IF k \in DOMAIN content.header
                         THEN content.header[k] ELSE files[p].header[k]],
           body |-> content.body]]

\* Variant: the new body is appended to the body of a document that exists.
WriteFileAppending(files, path, content) ==
  [p \in DOMAIN files \cup {path} |->
     IF p # path THEN files[p]
     ELSE IF path \notin DOMAIN files THEN content
     ELSE [header |-> content.header, body |-> files[p].body \o content.body]]

\* fs.writeFile(filePath, content): the whole document is replaced.
WriteFile(files, path, content) ==
  [p \in DOMAIN files \cup {path} |-> IF p = path THEN content ELSE files[p]]

\* A file whose text does not begin with a --- header block.
MalformedContent == [body |-> <<>>]

\* readAnalyticsFromMDsveX when fs.readFile does not fail with an error
\* other than ENOENT: null for a missing file and for a text without a
\* header block (if (!frontmatterMatch) return null), else the decoded header.
ReadAnalytics(files, type, year, month) ==
  LET path == FilePath(type, year, month) IN
  IF path \notin DOMAIN files THEN Null
  ELSE IF "header" \notin DOMAIN files[path] THEN Null
  ELSE [kind |-> "document",
        frontmatter |-> [k \in DOMAIN files[path].header |-> DecodeValue(files[path].header[k])],
        content |-> files[path].body]

\* existing.frontmatter.totalCount || 0
TotalCountOrZero(fm) ==
  IF "totalCount" \in DOMAIN fm /\ fm["totalCount"].kind = "number"
  THEN fm["totalCount"].val
  ELSE 0

\* ------------------------------------------------------------------ state
VARIABLES
  config,         \* config.ts `config`: a function from the keys set to values
  tz,             \* timezone offset of the process, in hours
  now,            \* position of the clock in Instants
  analyticsBuffer,\* real-time-writer `analyticsBuffer`: type -> records
  files,          \* the file system: path -> document content
  writeInterval,  \* real-time-writer `writeInterval`: a timer id, or 0 (null)
  timers,         \* the interval timers active in the runtime
  flights,        \* flushAnalyticsBuffer executions suspended at an await
  log,            \* error reports, through the logger or console.error
  call,           \* arguments and progress of a direct writeAnalyticsToMDsveX call
  rejected,       \* some flushAnalyticsBuffer call ended by raising to its caller
  faults,         \* history: storage operations that have failed
  ntracks,        \* history: track calls made
  since,          \* history: track calls per type since its buffer was emptied
  tracked,        \* history: per type, the records tracked and not discarded by clearAnalyticsBuffer
  overlapped,     \* history: some call started while a flush was suspended
  stopped,        \* history: stopAnalyticsWriter has cleared a timer
  dirs,           \* the file system: the <<type, year>> directories that exist
  conv,           \* the converter call in progress, and the number of calls made
  queries,        \* the queries issued to the db adapter, by table
  result          \* what the last completed reader/converter/query call returned or raised

vars == <<config, tz, now, analyticsBuffer, files, writeInterval, timers,
          flights, log, call, rejected, faults, ntracks, since, tracked, overlapped, stopped,
          dirs, conv, queries, result>>

\* The flushAnalyticsBuffer executions a run can have in flight at once.
Slots == DOMAIN flights

\* getAnalyticsConfig().isDev ?? false
isDev == IF "isDev" \in DOMAIN config THEN config["isDev"] ELSE FALSE

\* const logger = getAnalyticsConfig().logger; if (logger) ... else console.error
LogChannel == IF "logger" \in DOMAIN config THEN "logger" ELSE "console"

EmptyConfig == [k \in {} |-> FALSE]
ConfigWith(key, value) == [k \in {key} |-> value]

Threshold(t) ==
  CASE t = PV -> PageViewThreshold
    [] t = EV -> EventThreshold
    [] t = UA -> UserActivityThreshold

\* A flushAnalyticsBuffer execution.  pc is the await it is suspended at
\* ("read": fs.readFile, "mkdir": fs.mkdir, "write": fs.writeFile) or "idle";
\* t the type being flushed, rest the types still to visit, snap the records
\* grouped into byMonth, k the position in byMonth, extra the
\* additionalFrontmatter of the pending writeAnalyticsToMDsveX call.
IdleFlight ==
  [pc |-> "idle", t |-> "none", rest |-> <<>>, snap |-> <<>>,
   k |-> 0, extra |-> NoExtra]

InFlight(f) == flights[f].pc # "idle"
AnyInFlight == \E f \in Slots : InFlight(f)
FreeSlot == CHOOSE f \in Slots : ~InFlight(f) /\ \A g \in Slots : g < f => InFlight(g)

\* byMonth: the `${year}-${month}` keys in insertion order, and their records
MonthKeys(snap, zone) ==
  InsertionOrder([i \in DOMAIN snap |->
                    <<GetFullYear(snap[i].timestamp, zone), GetMonth1(snap[i].timestamp, zone)>>],
                 <<>>)
MonthData(snap, zone, key) ==
  SelectSeq(snap, LAMBDA r : <<GetFullYear(r.timestamp, zone), GetMonth1(r.timestamp, zone)>> = key)

\* for (const t of types) { const buffer = analyticsBuffer[t];
\*   if (buffer.length === 0) continue; ... group by month ... await read
\* Runs the loop from the types in `rest` up to the next await, or to the end.
VisitNext(rest, buf) ==
  LET idx == {i \in DOMAIN rest : buf[rest[i]] # <<>>} IN
  IF idx = {} THEN IdleFlight
  ELSE LET i == CHOOSE j \in idx : \A h \in idx : j <= h
       IN [pc |-> "read", t |-> rest[i],
           rest |-> SubSeq(rest, i + 1, Len(rest)), snap |-> buf[rest[i]],
           k |-> 1, extra |-> NoExtra]

\* Variant: the catch block re-raises, which ends the whole call.
CatchFlushErrorRethrows(fl, buf) ==
  [flight |-> IdleFlight, raised |-> TRUE, buffer |-> buf]

\* Variant: the catch block clears the buffer of the type that failed.
CatchFlushErrorClears(fl, buf) ==
  [flight |-> VisitNext(fl.rest, [buf EXCEPT ![fl.t] = <<>>]), raised |-> FALSE,
   buffer |-> [buf EXCEPT ![fl.t] = <<>>]]

\* catch (error) { log }: the error is not re-raised and the loop goes on
\* with the next type
CatchFlushError(fl, buf) ==
  [flight |-> VisitNext(fl.rest, buf), raised |-> FALSE, buffer |-> buf]

\* Variant: finishing a type empties the buffers of all three types.
ClearedEveryBuffer(buf, t) == [u \in DOMAIN buf |-> <<>>]

\* analyticsBuffer[t] = []
ClearedBuffer(buf, t) == [buf EXCEPT ![t] = <<>>]

\* Variant: the existing document is ignored, the month is written afresh.
MergeExtraIgnoresExisting(existing, data) == NoExtra

\* additionalFrontmatter of the write that merges with an existing document
MergeExtra(existing, data) ==
  IF existing.kind = "document"
  THEN [totalCount |-> TotalCountOrZero(existing.frontmatter) + SumValues(data),
        lastUpdated |-> IsoNow]
  ELSE NoExtra

Record(ts, v) == [timestamp |-> ts, value |-> v]

\* ------------------------------------------------------- history helpers
NoCall == [pc |-> "none"]
NoResult == [kind |-> "none"]
IdleConv == [pc |-> "idle"]

\* A converter call c with n, the number of converter calls made so far.
Counted(c, n) == [k \in DOMAIN c \cup {"n"} |-> IF k = "n" THEN n ELSE c[k]]

\* How a call ended: with a return value, or by raising an error.  op is the
\* call: its name followed by its arguments and by the errors its storage
\* calls ended with ("none" for a storage call that returned).
Returned(op, value) == [kind |-> "returned", op |-> op, value |-> value]
Raised(op, error) == [kind |-> "raised", op |-> op, error |-> error]

\* The storage errors other than ENOENT that fs calls fail with.
StorageErrors == {"EACCES", "EIO"}

MonthKeyOf(r, zone) == <<GetFullYear(r.timestamp, zone), GetMonth1(r.timestamp, zone)>>
SumAt(m, key) == IF key \in DOMAIN m THEN m[key] ELSE 0
AddAt(m, key, v) == [x \in DOMAIN m \cup {key} |-> SumAt(m, x) + (IF x = key THEN v ELSE 0)]
BufferSumAt(buf, zone, key) == SumValues(MonthData(buf, zone, key))

\* --------------------------------------------------------------------- Init
InitCommon ==
  /\ tz \in TZOffsets
  /\ now = 1
  /\ analyticsBuffer = [t \in Types |-> <<>>]
  /\ files = [p \in {} |-> Null]
  /\ writeInterval = 0
  /\ timers = {}
  /\ flights = [f \in 1..MaxFlights |-> IdleFlight]
  /\ log = <<>>
  /\ rejected = FALSE
  /\ faults = 0
  /\ ntracks = 0
  /\ since = [t \in Types |-> 0]
  /\ tracked = [t \in Types |-> [x \in {} |-> 0]]
  /\ overlapped = FALSE
  /\ stopped = FALSE
  /\ dirs = {}
  /\ conv = Counted(IdleConv, 0)
  /\ queries = <<>>
  /\ result = NoResult

Init ==
  /\ InitCommon
  /\ config \in {EmptyConfig, ConfigWith("logger", "logger")}
  /\ call = NoCall

\* ------------------------------------------------------------------- clock
Tick ==
  /\ now < Len(Instants)
  /\ now' = now + 1
  /\ UNCHANGED <<dirs, conv, queries, result, config, tz, analyticsBuffer, files, writeInterval, timers,
                 flights, log, call, rejected, faults, ntracks, since, tracked, overlapped, stopped>>

\* ------------------------------------------------------- real-time writer
\* analyticsBuffer[t].push(record)
PushRecord(buf, t, r) == [buf EXCEPT ![t] = Append(@, r)]

\* Variant: the flush starts one record late.
PastThreshold(buf, t) == Len(buf[t]) > Threshold(t)

\* analyticsBuffer[t].length >= 10 (5 for events)
AtThreshold(buf, t) == Len(buf[t]) >= Threshold(t)

\* The body shared by trackPageView, trackEvent and trackUserActivity: push,
\* then in dev mode at the threshold `await flushAnalyticsBuffer(t)`, which
\* runs up to its first await within the same step.
Track(t, v, bound) ==
  LET r == Record(Instants[now], v)
      buf == PushRecord(analyticsBuffer, t, r)
      flush == isDev /\ AtThreshold(buf, t)
  IN /\ ntracks < bound
     /\ flush => \E f \in Slots : ~InFlight(f)
     /\ analyticsBuffer' = buf
     /\ flights' = IF flush
                   THEN [flights EXCEPT ![FreeSlot] = VisitNext(<<t>>, buf)]
                   ELSE flights
     /\ ntracks' = ntracks + 1
     /\ since' = [since EXCEPT ![t] = @ + 1]
     /\ tracked' = [tracked EXCEPT ![t] = AddAt(@, MonthKeyOf(r, tz), v)]
     /\ overlapped' = (overlapped \/ AnyInFlight)
     /\ UNCHANGED <<dirs, conv, queries, result, config, tz, now, files, writeInterval, timers, log, call, rejected,
                    faults, stopped>>

trackPageView == Track(PV, 1, MaxTracks)
trackEvent(participants) == Track(EV, participants, MaxTracks)
trackUserActivity == Track(UA, 1, MaxTracks)

\* flushAnalyticsBuffer(type?) from its call to its first await (or to its
\* end when every targeted buffer is empty).
BeginFlush(types) ==
  /\ \E f \in Slots : ~InFlight(f)
  /\ flights' = [flights EXCEPT ![FreeSlot] = VisitNext(types, analyticsBuffer)]
  /\ overlapped' = (overlapped \/ AnyInFlight)
  /\ UNCHANGED <<dirs, conv, queries, result, config, tz, now, analyticsBuffer, files, writeInterval, timers,
                 log, call, rejected, faults, ntracks, since, tracked, stopped>>

flushAnalyticsBuffer(type) ==
  BeginFlush(IF type = "all" THEN AllTypes ELSE <<type>>)

\* The setInterval callback: await flushAnalyticsBuffer()
TimerFires ==
  /\ timers # {}
  /\ BeginFlush(AllTypes)

\* The `${year}-${month}` key of byMonth a flush is at.
FlightMonth(fl) == MonthKeys(fl.snap, tz)[fl.k]

\* const existing = await readAnalyticsFromMDsveX(t, year, month) returns
\* (a document, or null for ENOENT); writeAnalyticsToMDsveX is called and
\* suspends at fs.mkdir.
ReadReturns(f) ==
  LET fl == flights[f]
      key == MonthKeys(fl.snap, tz)[fl.k]
      existing == ReadAnalytics(files, fl.t, key[1], key[2])
      extra == MergeExtra(existing, MonthData(fl.snap, tz, key))
  IN /\ fl.pc = "read"
     /\ flights' = [flights EXCEPT ![f] = [fl EXCEPT !.pc = "mkdir", !.extra = extra]]
     /\ UNCHANGED <<dirs, conv, queries, result, config, tz, now, analyticsBuffer, files, writeInterval, timers,
                    log, call, rejected, faults, ntracks, since, tracked, overlapped, stopped>>

\* await fs.mkdir returns; the statistics and the content are computed
\* (from the call's arguments alone) and the execution suspends at
\* fs.writeFile.
MkdirReturns(f) ==
  LET fl == flights[f]
  IN /\ fl.pc = "mkdir"
     /\ flights' = [flights EXCEPT ![f] =
                      [fl EXCEPT !.pc = "write"]]
     /\ dirs' = MakeDir(dirs, FilePath(fl.t, FlightMonth(fl)[1], FlightMonth(fl)[2]))
     /\ UNCHANGED <<conv, queries, result, config, tz, now, analyticsBuffer, files, writeInterval, timers,
                    log, call, rejected, faults, ntracks, since, tracked, overlapped, stopped>>

\* await fs.writeFile returns: the month's document is on disk.  With more
\* months in byMonth the next one is read; after the last one the buffer is
\* cleared and the loop goes on with the next type.
WriteReturns(f) ==
  LET fl == flights[f]
      keys == MonthKeys(fl.snap, tz)
      key == keys[fl.k]
      data == MonthData(fl.snap, tz, key)
      date == NewDate(key[1], key[2], tz)
      content == DocumentContent(fl.t, date, data, fl.extra, tz)
      cleared == ClearedBuffer(analyticsBuffer, fl.t)
  IN /\ fl.pc = "write"
     /\ files' = WriteFile(files, WritePath(fl.t, date, tz), content)
     /\ IF fl.k < Len(keys)
        THEN /\ flights' = [flights EXCEPT ![f] =
                              [fl EXCEPT !.pc = "read", !.k = fl.k + 1,
                                         !.extra = NoExtra]]
             /\ UNCHANGED <<analyticsBuffer, since>>
        ELSE /\ analyticsBuffer' = cleared
             /\ since' = [since EXCEPT ![fl.t] = 0]
             /\ flights' = [flights EXCEPT ![f] = VisitNext(fl.rest, cleared)]
     /\ UNCHANGED <<dirs, conv, queries, result, config, tz, now, writeInterval, timers, log, call, rejected, faults,
                    ntracks, tracked, overlapped, stopped>>

\* A storage operation of the flush fails with an error other than ENOENT:
\* the catch block of the type reports it.
StorageFails(f) ==
  LET fl == flights[f]
      outcome == CatchFlushError(fl, analyticsBuffer)
  IN /\ fl.pc \in {"read", "mkdir", "write"}
     /\ faults < MaxFaults
     /\ faults' = faults + 1
     /\ log' = Append(log, [level |-> "error", channel |-> LogChannel, type |-> fl.t])
     /\ flights' = [flights EXCEPT ![f] = outcome.flight]
     /\ rejected' = (rejected \/ outcome.raised)
     /\ analyticsBuffer' = outcome.buffer
     /\ UNCHANGED <<dirs, conv, queries, result, config, tz, now, files, writeInterval, timers,
                    call, ntracks, since, tracked, overlapped, stopped>>

\* Variant: start does not look at writeInterval.
StartGuardMissing == FALSE

\* if (writeInterval) return; writeInterval = setInterval(...)
StartGuard == writeInterval # 0

startAnalyticsWriter ==
  /\ IF StartGuard
     THEN UNCHANGED <<writeInterval, timers>>
     ELSE LET id == CHOOSE i \in 1..MaxTimers : i \notin timers IN
          /\ Cardinality(timers) < MaxTimers
          /\ timers' = timers \cup {id}
          /\ writeInterval' = id
  /\ UNCHANGED <<dirs, conv, queries, result, config, tz, now, analyticsBuffer, files, flights, log, call,
                 rejected, faults, ntracks, since, tracked, overlapped, stopped>>

\* Variant: stop also empties the buffers.
stopAnalyticsWriterDrains ==
  /\ IF writeInterval # 0
     THEN /\ timers' = timers \ {writeInterval}
          /\ writeInterval' = 0
          /\ stopped' = TRUE
          /\ analyticsBuffer' = [t \in Types |-> <<>>]
     ELSE UNCHANGED <<writeInterval, timers, stopped, analyticsBuffer>>
  /\ UNCHANGED <<dirs, conv, queries, result, config, tz, now, files, flights, log, call,
                 rejected, faults, ntracks, since, tracked, overlapped>>

\* if (writeInterval) { clearInterval(writeInterval); writeInterval = null }
stopAnalyticsWriter ==
  /\ IF writeInterval # 0
     THEN /\ timers' = timers \ {writeInterval}
          /\ writeInterval' = 0
          /\ stopped' = TRUE
     ELSE UNCHANGED <<writeInterval, timers, stopped>>
  /\ UNCHANGED <<dirs, conv, queries, result, config, tz, now, analyticsBuffer, files, flights, log, call,
                 rejected, faults, ntracks, since, tracked, overlapped>>

\* getBufferStats()
getBufferStats == [t \in Types |-> Len(analyticsBuffer[t])]

\* Variant: the user-activity buffer is left as it is.
ClearedButOne(buf) == [buf EXCEPT ![PV] = <<>>, ![EV] = <<>>]

\* clearAnalyticsBuffer(): all three buffers become []
ClearedAll(buf) == [t \in Types |-> <<>>]

clearAnalyticsBuffer ==
  /\ analyticsBuffer' = ClearedAll(analyticsBuffer)
  /\ since' = [t \in Types |-> 0]
  /\ tracked' = [t \in Types |->
                   [x \in DOMAIN tracked[t] |->
                      tracked[t][x] - BufferSumAt(analyticsBuffer[t], tz, x)]]
  /\ overlapped' = (overlapped \/ AnyInFlight)
  /\ UNCHANGED <<dirs, conv, queries, result, config, tz, now, files, writeInterval, timers, flights, log, call,
                 rejected, faults, ntracks, stopped>>

\* ------------------------------------------- direct writeAnalyticsToMDsveX
\* The record lists of at most n records over DataInstants and 0..MaxValue.
RECURSIVE DataLists(_)
DataLists(n) ==
  IF n = 0 THEN {<<>>}
  ELSE LET shorter == DataLists(n - 1)
       IN shorter \cup {Append(d, Record(ts, v)) :
                          d \in {x \in shorter : Len(x) = n - 1},
                          ts \in DataInstants, v \in 0..MaxValue}

\* A caller's writeAnalyticsToMDsveX(type, date, data, additionalFrontmatter?)
\* runs to completion: mkdir, the statistics, the content, writeFile.
writeAnalyticsToMDsveX ==
  /\ call.pc = "ready"
  /\ files' = WriteFile(files, WritePath(call.type, call.date, tz),
                        DocumentContent(call.type, call.date, call.data, call.extra, tz))
  /\ call' = [call EXCEPT !.pc = "done"]
  /\ dirs' = MakeDir(dirs, WritePath(call.type, call.date, tz))
  /\ result' = Returned(<<"write">>, WritePath(call.type, call.date, tz))
  /\ UNCHANGED <<conv, queries, config, tz, now, analyticsBuffer, writeInterval, timers, flights, log,
                 rejected, faults, ntracks, since, tracked, overlapped, stopped>>

\* fs.mkdir or fs.writeFile fails: the error reaches the caller, no document
\* is written (the directory exists when it was fs.writeFile that failed).
writeAnalyticsToMDsveXFails ==
  /\ call.pc = "ready"
  /\ call' = [call EXCEPT !.pc = "failed"]
  /\ faults' = faults + 1
  /\ dirs' \in {dirs, MakeDir(dirs, WritePath(call.type, call.date, tz))}
  /\ \E e \in StorageErrors : result' = Raised(<<"write">>, e)
  /\ UNCHANGED <<conv, queries, config, tz, now, analyticsBuffer, files, writeInterval, timers, flights,
                 log, rejected, ntracks, since, tracked, overlapped, stopped>>

InitWrite ==
  /\ InitCommon
  /\ config = EmptyConfig
  /\ call \in [pc : {"ready"}, type : Types, date : {Instants[i] : i \in DOMAIN Instants},
               data : DataLists(MaxLen),
               extra : {NoExtra, [totalCount |-> 7]}]

NextWrite ==
  \/ writeAnalyticsToMDsveX
  \/ writeAnalyticsToMDsveXFails

SpecWrite == InitWrite /\ [][NextWrite]_vars

\* Direct writes of records whose values are of either sign (AnalyticsData
\* value: number).
RECURSIVE SignedLists(_)
SignedLists(n) ==
  IF n = 0 THEN {<<>>}
  ELSE LET shorter == SignedLists(n - 1)
       IN shorter \cup {Append(d, Record(ts, v)) :
                          d \in {x \in shorter : Len(x) = n - 1},
                          ts \in DataInstants, v \in (0 - MaxValue)..MaxValue}

InitSigned ==
  /\ InitCommon
  /\ config = EmptyConfig
  /\ call \in [pc : {"ready"}, type : {PV}, date : {Instants[i] : i \in DOMAIN Instants},
               data : SignedLists(MaxSignedLen), extra : {NoExtra}]

SpecSigned == InitSigned /\ [][NextWrite]_vars

\* ------------------------------------------------- readAnalyticsFromMDsveX
\* The error of `await fs.readFile(filePath)`, "none" when it returns the
\* content: ENOENT without a file at the path, or the fault of the storage.
ReadFileError(fs, path, fault) ==
  IF fault # "none" THEN fault
  ELSE IF path \notin DOMAIN fs THEN "ENOENT"
  ELSE "none"

\* Variant: every error of the read is mapped to null.
CatchReadErrorSwallows(e) == Returned(<<"read">>, Null)

\* Variant: every error of the read is re-raised, ENOENT too.
CatchReadErrorRethrows(e) == Raised(<<"read">>, e)

\* catch (error) { if (error.code === 'ENOENT') return null; throw error }
CatchReadError(e) ==
  IF e = "ENOENT" THEN Returned(<<"read">>, Null) ELSE Raised(<<"read">>, e)

\* A caller's readAnalyticsFromMDsveX(type, year, month), run to completion.
readAnalyticsFromMDsveX(type, year, month, fault) ==
  LET e == ReadFileError(files, FilePath(type, year, month), fault)
      outcome == IF e = "none"
                 THEN Returned(<<"read">>, ReadAnalytics(files, type, year, month))
                 ELSE CatchReadError(e)
  IN /\ result' = [outcome EXCEPT !.op = <<"read", type, year, month, e>>]
     /\ UNCHANGED <<dirs, conv, queries, config, tz, now, analyticsBuffer, files,
                    writeInterval, timers, flights, log, call, rejected, faults,
                    ntracks, since, tracked, overlapped, stopped>>

\* The (year, month) keys a reader asks for: the months of Instants.
ReadKeys == {<<Year0, 1>>, <<Year0, 2>>}

\* One write with drawn arguments, and reads of the written type.
InitRead ==
  /\ InitCommon
  /\ config = EmptyConfig
  /\ call \in [pc : {"ready"}, type : Types, date : {Instants[i] : i \in DOMAIN Instants},
               data : DataLists(MaxReadLen),
               extra : {NoExtra, [totalCount |-> 7]}]

NextRead ==
  \/ writeAnalyticsToMDsveX
  \/ writeAnalyticsToMDsveXFails
  \/ \E key \in ReadKeys, fault \in {"none"} \cup StorageErrors :
       readAnalyticsFromMDsveX(call.type, key[1], key[2], fault)

SpecRead == InitRead /\ [][NextRead]_vars

\* ------------------------------------------------------ listAnalyticsFiles
\* /^\d{4}$/.test(year): a directory name of four digits
IsYearName(y) == y \in 1000..9999

\* /^\d{2}\.mdx$/.test(monthFile): a file name of two digits and .mdx
IsMonthFile(digits) == Len(digits) = 2

\* parseInt(monthFile.replace('.mdx', ''))
ParseMonth(digits) == digits[1] * 10 + digits[2]

\* The sort comparator is negative: a is placed before b.
\* Variant: ascending by year, then by month.
BeforeAscending(a, b) == a.year < b.year \/ (a.year = b.year /\ a.month < b.month)

\* if (a.year !== b.year) return b.year - a.year; return b.month - a.month
Before(a, b) == a.year > b.year \/ (a.year = b.year /\ a.month > b.month)

\* Array.prototype.sort with that comparator; the sort is stable.
RECURSIVE InsertSorted(_, _)
InsertSorted(e, q) ==
  IF q = <<>> THEN <<e>>
  ELSE IF Before(e, q[1]) THEN <<e>> \o q
  ELSE <<q[1]>> \o InsertSorted(e, Tail(q))

RECURSIVE StableSort(_)
StableSort(q) ==
  IF q = <<>> THEN <<>>
  ELSE InsertSorted(q[Len(q)], StableSort(SubSeq(q, 1, Len(q) - 1)))

\* fs.readdir returns the names of a directory in an order the file system
\* chooses: here ascending (up) or descending.
RECURSIVE Enumerate(_, _)
Enumerate(paths, up) ==
  IF paths = {} THEN <<>>
  ELSE LET first == CHOOSE p \in paths : \A q \in paths :
                      IF up
                      THEN p[2] < q[2] \/ (p[2] = q[2] /\ Len(p[3]) <= Len(q[3]) /\
                                            (Len(p[3]) = Len(q[3]) => ParseMonth(p[3] \o <<0>>) <= ParseMonth(q[3] \o <<0>>)))
                      ELSE p[2] > q[2] \/ (p[2] = q[2] /\ Len(p[3]) >= Len(q[3]) /\
                                            (Len(p[3]) = Len(q[3]) => ParseMonth(p[3] \o <<0>>) >= ParseMonth(q[3] \o <<0>>)))
       IN <<first>> \o Enumerate(paths \ {first}, up)

\* The entries pushed for type t: the month files of its year directories.
TypeEntries(fs, t, up) ==
  LET paths == Enumerate({p \in DOMAIN fs : p[1] = t /\ IsYearName(p[2]) /\ IsMonthFile(p[3])}, up)
  IN [i \in DOMAIN paths |->
        [type |-> t, year |-> paths[i][2], month |-> ParseMonth(paths[i][3]), path |-> paths[i]]]

\* The error of `await fs.readdir(typePath)`, "none" when it returns.
ReaddirError(ds, t, fault) ==
  IF fault # "none" /\ fault[1] = t THEN fault[2]
  ELSE IF \A d \in ds : d[1] # t THEN "ENOENT"
  ELSE "none"

\* catch (error) { if (error.code !== 'ENOENT') throw error }: whether the
\* loop goes on with the next type.
SkipsType(e) == e = "ENOENT"

\* for (const t of types) { try { readdir ... push } catch ... }; return sort
RECURSIVE ListTypes(_, _, _, _, _, _)
ListTypes(types, fs, ds, up, fault, acc) ==
  IF types = <<>> THEN Returned(<<"list">>, StableSort(acc))
  ELSE LET e == ReaddirError(ds, types[1], fault) IN
       IF e = "none"
       THEN ListTypes(Tail(types), fs, ds, up, fault, acc \o TypeEntries(fs, types[1], up))
       ELSE IF SkipsType(e) THEN ListTypes(Tail(types), fs, ds, up, fault, acc)
       ELSE Raised(<<"list">>, e)

\* A caller's listAnalyticsFiles(type?), run to completion.
listAnalyticsFiles(type, up, fault) ==
  LET types == IF type = "all" THEN AllTypes ELSE <<type>>
      outcome == ListTypes(types, files, dirs, up, fault, <<>>)
  IN /\ result' = [outcome EXCEPT !.op =
                        <<"list", type, [i \in DOMAIN types |-> ReaddirError(dirs, types[i], fault)]>>]
     /\ UNCHANGED <<dirs, conv, queries, config, tz, now, analyticsBuffer, files,
                    writeInterval, timers, flights, log, call, rejected, faults,
                    ntracks, since, tracked, overlapped, stopped>>

\* ------------------------------------------------------------ the store
\* Documents that the package did not write: under a directory "26", under
\* the name "1.mdx", and under the name "13.mdx" of a year directory.
StrayPaths == {<<PV, 26, <<0, 1>>>>, <<PV, Year0, <<1>>>>, <<EV, Year0 - 1, <<1, 3>>>>}
StrayStore == [p \in StrayPaths |-> DocumentContent(p[1], 0, <<>>, NoExtra, 0)]
EmptyStore == [p \in {} |-> Null]

\* The record lists of the writes of SpecStore
StoreData == {<<>>, <<Record(Instants[1], 1)>>}

\* A caller calls writeAnalyticsToMDsveX(type, date, data).
callWriteAnalytics(type, date, data) ==
  /\ call.pc # "ready"
  /\ call.n < MaxWrites
  /\ call' = [pc |-> "ready", type |-> type, date |-> date, data |-> data,
              extra |-> NoExtra, n |-> call.n + 1]
  /\ UNCHANGED <<dirs, conv, queries, result, config, tz, now, analyticsBuffer, files,
                 writeInterval, timers, flights, log, rejected, faults,
                 ntracks, since, tracked, overlapped, stopped>>

InitStore ==
  /\ tz = 0
  /\ now = 1
  /\ analyticsBuffer = [t \in Types |-> <<>>]
  /\ files \in {EmptyStore, StrayStore}
  /\ dirs = {<<p[1], p[2]>> : p \in DOMAIN files}
  /\ writeInterval = 0
  /\ timers = {}
  /\ flights = [f \in 1..MaxFlights |-> IdleFlight]
  /\ log = <<>>
  /\ rejected = FALSE
  /\ faults = 0
  /\ ntracks = 0
  /\ since = [t \in Types |-> 0]
  /\ tracked = [t \in Types |-> [x \in {} |-> 0]]
  /\ overlapped = FALSE
  /\ stopped = FALSE
  /\ conv = Counted(IdleConv, 0)
  /\ queries = <<>>
  /\ result = NoResult
  /\ config = EmptyConfig
  /\ call = [pc |-> "none", n |-> 0]

NextStore ==
  \/ \E type \in Types, i \in DOMAIN Instants, data \in StoreData :
       callWriteAnalytics(type, Instants[i], data)
  \/ writeAnalyticsToMDsveX
  \/ writeAnalyticsToMDsveXFails
  \/ \E type \in Types, key \in ReadKeys, fault \in {"none"} \cup StorageErrors :
       readAnalyticsFromMDsveX(type, key[1], key[2], fault)
  \/ \E type \in Types \cup {"all"}, up \in BOOLEAN,
        fault \in {"none"} \cup ({EV} \X StorageErrors) :
       listAnalyticsFiles(type, up, fault)

SpecStore == InitStore /\ [][NextStore]_vars

\* ---------------------------------------------------------------- converter
\* A row of page_views, event_details or user_activities: `name` is its
\* path, event_type or activity_type.  Rows carry no session_id.
Row(ts, name, participants, user) ==
  [timestamp |-> ts, name |-> name, participants |-> participants, user |-> user]

RowNames == {"a", "b"}
RowUsers == {"u1"}
RowValues(names) ==
  {Row(Instants[i], n, p, u) :
     i \in DOMAIN Instants, n \in names, p \in 0..MaxParticipants, u \in RowUsers}

\* The results of a query: at most n rows, ORDER BY timestamp.
RECURSIVE RowLists(_, _)
RowLists(n, names) ==
  IF n = 0 THEN {<<>>}
  ELSE LET shorter == RowLists(n - 1, names)
       IN shorter \cup
          {Append(q, row) : q \in {x \in shorter : Len(x) = n - 1},
                            row \in RowValues(names)}

Ordered(rows) == \A i, j \in DOMAIN rows : i < j => rows[i].timestamp <= rows[j].timestamp

\* The AnalyticsData built from the rows: value 1 for a page view or an
\* activity, `participants || 0` for an event; the metadata keeps the name
\* and the user.
ToData(t, rows) ==
  [i \in DOMAIN rows |->
     [timestamp |-> rows[i].timestamp,
      value |-> IF t = EV THEN rows[i].participants ELSE 1,
      name |-> rows[i].name,
      user |-> rows[i].user]]

\* acc[name] = (acc[name] || 0) + 1 over the data
CountOf(data, name) == Cardinality({i \in DOMAIN data : data[i].name = name})
CountsByName(data) ==
  [n \in {data[i].name : i \in DOMAIN data} |-> CountOf(data, n)]

\* Object.entries(pathCounts).sort(([, a], [, b]) => b - a): the names in
\* insertion order, stably sorted by descending count.
RECURSIVE InsertByCount(_, _, _)
InsertByCount(n, q, data) ==
  IF q = <<>> THEN <<n>>
  ELSE IF CountOf(data, n) > CountOf(data, q[1]) THEN <<n>> \o q
  ELSE <<q[1]>> \o InsertByCount(n, Tail(q), data)

RECURSIVE SortByCount(_, _)
SortByCount(names, data) ==
  IF names = <<>> THEN <<>>
  ELSE InsertByCount(names[Len(names)],
                     SortByCount(SubSeq(names, 1, Len(names) - 1), data), data)

\* getTopPaths(data, limit = 10)
GetTopPaths(data) ==
  LET names == SortByCount(InsertionOrder([i \in DOMAIN data |-> data[i].name], <<>>), data)
      top == SubSeq(names, 1, IF Len(names) < TopPathsLimit THEN Len(names) ELSE TopPathsLimit)
  IN [i \in DOMAIN top |-> [path |-> top[i], count |-> CountOf(data, top[i])]]

UniqueUsers(data) == Cardinality({data[i].user : i \in DOMAIN data})

\* The additionalFrontmatter a conversion passes for a month's data.
ConvertExtra(t, data) ==
  CASE t = PV -> [uniquePaths |-> Cardinality({data[i].name : i \in DOMAIN data}),
                  uniqueSessions |-> 0,
                  topPaths |-> GetTopPaths(data)]
    [] t = EV -> [totalEvents |-> Len(data),
                  totalParticipants |-> SumValues(data),
                  eventTypes |-> CountsByName(data),
                  averageParticipants |->
                    IF Len(data) > 0 THEN MathRound(SumValues(data), Len(data)) ELSE 0]
    [] t = UA -> [uniqueUsers |-> UniqueUsers(data),
                  activityTypes |-> CountsByName(data),
                  averageActivitiesPerUser |->
                    IF UniqueUsers(data) > 0 THEN MathRound(Len(data), UniqueUsers(data)) ELSE 0]

\* getAnalyticsConfig().db
HasDb == "db" \in DOMAIN config

NoDatabaseAdapter == "No DatabaseAdapter configured"

\* logger('error', 'Failed to convert ...', { error }) or console.error
ConvertLogEntry(t) == [level |-> "error", channel |-> LogChannel, type |-> t]

\* The field of convertAllAnalytics' result a conversion fills.
OutField(t) ==
  CASE t = PV -> "pageViews"
    [] t = EV -> "events"
    [] t = UA -> "userActivity"

\* convertAllAnalytics from the conversion of types[1] on, up to the next
\* await (the query of a conversion) or to its return.  Without a db each
\* conversion raises at requireDb and the catch block of convertAllAnalytics
\* logs it.
RECURSIVE RunConversions(_, _, _, _)
RunConversions(types, out, lg, qs) ==
  IF types = <<>>
  THEN [conv |-> IdleConv, result |-> Returned(<<"convertAll">>, out),
        log |-> lg, queries |-> qs]
  ELSE IF ~HasDb
  THEN RunConversions(Tail(types), out, Append(lg, ConvertLogEntry(types[1])), qs)
  ELSE [conv |-> [pc |-> "query", t |-> types[1], all |-> TRUE, rest |-> Tail(types),
                  out |-> out, rows |-> <<>>, k |-> 0, results |-> <<>>],
        result |-> result, log |-> lg, queries |-> Append(qs, types[1])]

\* Variant: every document of a conversion is given all the rows.
ConvDataAllRows(c) == ToData(c.t, c.rows)

\* The records of the month a conversion is at.
ConvData(c) == ToData(c.t, MonthData(c.rows, tz, MonthKeys(c.rows, tz)[c.k]))

\* Variant: a failed conversion logs and returns what it has written.
ConversionFailsQuietly(c, e, lg, qs) ==
  [conv |-> IdleConv, result |-> Returned(<<"convert", c.t, c.rows>>, c.results),
   log |-> Append(lg, ConvertLogEntry(c.t)), queries |-> qs]

\* Variant: convertAllAnalytics stops at the first failed conversion.
ConversionFailsAborting(c, e, lg, qs) ==
  IF c.all
  THEN [conv |-> IdleConv, result |-> Raised(<<"convertAll">>, e),
        log |-> Append(lg, ConvertLogEntry(c.t)), queries |-> qs]
  ELSE [conv |-> IdleConv, result |-> Raised(<<"convert", c.t, c.rows>>, e),
        log |-> Append(lg, ConvertLogEntry(c.t)), queries |-> qs]

\* catch (error) { log; throw error } of a conversion, and under
\* convertAllAnalytics its catch block, which logs again and goes on.
ConversionFails(c, e, lg, qs) ==
  IF c.all
  THEN RunConversions(c.rest, c.out,
                      Append(Append(lg, ConvertLogEntry(c.t)), ConvertLogEntry(c.t)), qs)
  ELSE [conv |-> IdleConv, result |-> Raised(<<"convert", c.t, c.rows>>, e),
        log |-> Append(lg, ConvertLogEntry(c.t)), queries |-> qs]

\* return results
ConversionReturns(c, results, lg, qs) ==
  IF c.all
  THEN RunConversions(c.rest, [c.out EXCEPT ![OutField(c.t)] = results], lg, qs)
  ELSE [conv |-> IdleConv, result |-> Returned(<<"convert", c.t, c.rows>>, results),
        log |-> lg, queries |-> qs]

\* Variant: requireDb returns undefined and the query is attempted.
RequireDbMissing == TRUE

\* requireDb(): whether a db adapter is configured
RequireDb == HasDb

\* A caller's convertPageViewsToMDsveX / convertEventAnalyticsToMDsveX /
\* convertUserActivityToMDsveX, up to `await db.query`; without a db it
\* raises before the try block.  bound limits the calls of a run.
ConvertCall(t, bound) ==
  /\ conv.pc = "idle"
  /\ conv.n < bound
  /\ IF RequireDb
     THEN /\ conv' = [pc |-> "query", t |-> t, all |-> FALSE, rest |-> <<>>,
                      out |-> <<>>, rows |-> <<>>, k |-> 0, results |-> <<>>,
                      n |-> conv.n + 1]
          /\ queries' = Append(queries, t)
          /\ UNCHANGED result
     ELSE /\ result' = Raised(<<"convert", t, <<>>>>, NoDatabaseAdapter)
          /\ conv' = Counted(IdleConv, conv.n + 1)
          /\ UNCHANGED queries
  /\ UNCHANGED <<dirs, config, tz, now, analyticsBuffer, files, writeInterval, timers,
                 flights, log, call, rejected, faults, ntracks, since, tracked, overlapped,
                 stopped>>

callConvert(t) == ConvertCall(t, MaxConverts)

\* A caller's convertAllAnalytics, up to its first await or to its return.
callConvertAll ==
  LET run == RunConversions(AllTypes,
                            [pageViews |-> <<>>, events |-> <<>>, userActivity |-> <<>>],
                            log, queries)
  IN /\ conv.pc = "idle"
     /\ conv.n < MaxConverts
     /\ conv' = Counted(run.conv, conv.n + 1)
     /\ result' = run.result
     /\ log' = run.log
     /\ queries' = run.queries
     /\ UNCHANGED <<dirs, config, tz, now, analyticsBuffer, files, writeInterval, timers,
                    flights, call, rejected, faults, ntracks, since, tracked, overlapped,
                    stopped>>

ConvMonth(c) == MonthKeys(c.rows, tz)[c.k]
ConvDate(c) == NewDate(ConvMonth(c)[1], ConvMonth(c)[2], tz)

\* `await db.query` returns the rows: they are grouped by month; with no
\* row the conversion returns [], else the first month's
\* writeAnalyticsToMDsveX is called and suspends at fs.mkdir.
QueryReturns(rows) ==
  LET c == [conv EXCEPT !.rows = rows]
      run == ConversionReturns(c, <<>>, log, queries)
  IN /\ conv.pc = "query"
     /\ Ordered(rows)
     /\ IF rows = <<>>
        THEN /\ conv' = Counted(run.conv, conv.n)
             /\ result' = run.result
             /\ log' = run.log
             /\ queries' = run.queries
        ELSE /\ conv' = [c EXCEPT !.pc = "mkdir", !.k = 1]
             /\ UNCHANGED <<result, log, queries>>
     /\ UNCHANGED <<dirs, config, tz, now, analyticsBuffer, files, writeInterval, timers,
                    flights, call, rejected, faults, ntracks, since, tracked, overlapped,
                    stopped>>

\* fs.mkdir returns; the content is computed and fs.writeFile awaited.
ConvMkdirReturns ==
  /\ conv.pc = "mkdir"
  /\ conv' = [conv EXCEPT !.pc = "write"]
  /\ dirs' = MakeDir(dirs, WritePath(conv.t, ConvDate(conv), tz))
  /\ UNCHANGED <<queries, result, config, tz, now, analyticsBuffer, files, writeInterval,
                 timers, flights, log, call, rejected, faults, ntracks, since, tracked,
                 overlapped, stopped>>

\* fs.writeFile returns: the month's document is on disk and its path is
\* pushed to results; the next month follows, or the conversion returns.
ConvWriteReturns ==
  LET path == WritePath(conv.t, ConvDate(conv), tz)
      content == DocumentContent(conv.t, ConvDate(conv), ConvData(conv),
                                 ConvertExtra(conv.t, ConvData(conv)), tz)
      results == Append(conv.results, path)
      run == ConversionReturns(conv, results, log, queries)
  IN /\ conv.pc = "write"
     /\ files' = WriteFile(files, path, content)
     /\ IF conv.k < Len(MonthKeys(conv.rows, tz))
        THEN /\ conv' = [conv EXCEPT !.pc = "mkdir", !.k = conv.k + 1, !.results = results]
             /\ UNCHANGED <<result, log, queries>>
        ELSE /\ conv' = Counted(run.conv, conv.n)
             /\ result' = run.result
             /\ log' = run.log
             /\ queries' = run.queries
     /\ UNCHANGED <<dirs, config, tz, now, analyticsBuffer, writeInterval, timers,
                    flights, call, rejected, faults, ntracks, since, tracked, overlapped,
                    stopped>>

\* The errors a query fails with.
QueryErrors == {"query failed"}

\* db.query, fs.mkdir or fs.writeFile fails inside the try block.
ConversionFailsWith(e) ==
  LET run == ConversionFails(conv, e, log, queries)
  IN /\ \/ conv.pc = "query" /\ e \in QueryErrors
        \/ conv.pc \in {"mkdir", "write"} /\ e \in StorageErrors
     /\ faults' = faults + 1
     /\ conv' = Counted(run.conv, conv.n)
     /\ result' = run.result
     /\ log' = run.log
     /\ queries' = run.queries
     /\ UNCHANGED <<dirs, config, tz, now, analyticsBuffer, files, writeInterval, timers,
                    flights, call, rejected, ntracks, since, tracked, overlapped, stopped>>

\* The configurations of a converter run: with or without db and logger.
ConverterConfigs == {[k \in keys |-> k] : keys \in SUBSET {"db", "logger"}}

InitConvert ==
  /\ InitCommon
  /\ config \in ConverterConfigs
  /\ call = NoCall

NextConvert ==
  \/ \E t \in Types : callConvert(t)
  \/ callConvertAll
  \/ \E rows \in IF conv.pc = "query" /\ conv.all
                  THEN RowLists(MaxAllRows, {"a"})
                  ELSE RowLists(MaxRows, RowNames) : QueryReturns(rows)
  \/ ConvMkdirReturns
  \/ ConvWriteReturns
  \/ \E e \in QueryErrors \cup StorageErrors : ConversionFailsWith(e)

SpecConvert == InitConvert /\ [][NextConvert]_vars

\* ------------------------------------------------------------ getTopItems
\* JavaScript values as the query service meets them: numbers, strings (the
\* sequence of their characters), undefined and NaN.
JsNumber(n) == [kind |-> "number", val |-> n]
JsString(chars) == [kind |-> "string", val |-> chars]
JsUndefined == [kind |-> "undefined", val |-> <<>>]
JsNaN == [kind |-> "NaN", val |-> <<>>]

\* The characters of "[object Object]"
ObjectObjectChars ==
  <<"[", "o", "b", "j", "e", "c", "t", " ", "O", "b", "j", "e", "c", "t", "]">>

\* The characters of a bare header text that is not a number: its
\* "[object Object]" tokens joined by commas.
RECURSIVE TextChars(_)
TextChars(tokens) ==
  IF tokens = <<>> THEN <<>>
  ELSE IF Len(tokens) = 1 THEN ObjectObjectChars
  ELSE ObjectObjectChars \o <<",">> \o TextChars(Tail(tokens))

\* String(a) for the operands that occur
ToChars(a) ==
  CASE a.kind = "number" -> <<"0">>
    [] a.kind = "string" -> a.val
    [] a.kind = "NaN" -> <<"N", "a", "N">>
    [] a.kind = "undefined" -> <<"u", "n", "d", "e", "f", "i", "n", "e", "d">>

\* a + b: NaN when one side is undefined or NaN and none is a string,
\* concatenation when one side is a string, else the sum.
JsPlus(a, b) ==
  IF a.kind = "string" \/ b.kind = "string" THEN JsString(ToChars(a) \o ToChars(b))
  ELSE IF a.kind = "number" /\ b.kind = "number" THEN JsNumber(a.val + b.val)
  ELSE JsNaN

\* a || 0
OrZero(a) ==
  IF a.kind \in {"undefined", "NaN"} \/ a = JsNumber(0) \/ a = JsString(<<>>)
  THEN JsNumber(0) ELSE a

\* The breakdown field getTopItems reads for a type.
BreakdownField(t) ==
  CASE t = PV -> "topPaths"
    [] t = EV -> "eventTypes"
    [] t = UA -> "activityTypes"

\* The (key, count) pairs the loop over a breakdown visits.  The reader
\* yields a breakdown as a string or as a number, never as an array or an
\* object.  `for (const p of text)` visits the characters, whose .path and
\* .count are undefined; Object.entries(text) is the (index, character)
\* pairs; a number has no entries (and is 0, hence skipped, for topPaths).
BreakdownEntries(t, v) ==
  IF v.kind = "number" THEN <<>>
  ELSE LET chars == TextChars(v.val) IN
       IF t = PV
       THEN [i \in DOMAIN chars |-> [name |-> JsUndefined, count |-> JsUndefined]]
       ELSE [i \in DOMAIN chars |->
               [name |-> JsString(<<i - 1>>), count |-> JsString(<<chars[i]>>)]]

\* itemCounts.set(name, (itemCounts.get(name) || 0) + count); the Map keeps
\* the order of first insertion.
SetItem(items, name, count) ==
  IF \E i \in DOMAIN items : items[i].name = name
  THEN [i \in DOMAIN items |->
          IF items[i].name = name
          THEN [name |-> name, count |-> JsPlus(OrZero(items[i].count), count)]
          ELSE items[i]]
  ELSE Append(items, [name |-> name, count |-> JsPlus(JsNumber(0), count)])

\* The inner loop: acc is [items, total].
RECURSIVE AddEntries(_, _)
AddEntries(entries, acc) ==
  IF entries = <<>> THEN acc
  ELSE AddEntries(Tail(entries),
                  [items |-> SetItem(acc.items, entries[1].name, entries[1].count),
                   total |-> JsPlus(acc.total, entries[1].count)])

\* The outer loop over the listed files: a null read and a missing or falsy
\* breakdown are skipped.
RECURSIVE AddDocuments(_, _, _, _)
AddDocuments(listed, t, fs, acc) ==
  IF listed = <<>> THEN acc
  ELSE LET doc == ReadAnalytics(fs, t, listed[1].year, listed[1].month)
           field == BreakdownField(t)
           next == IF doc.kind = "document" /\ field \in DOMAIN doc.frontmatter
                      /\ OrZero(doc.frontmatter[field]) # JsNumber(0)
                   THEN AddEntries(BreakdownEntries(t, doc.frontmatter[field]), acc)
                   ELSE acc
       IN AddDocuments(Tail(listed), t, fs, next)

\* .sort(([, a], [, b]) => b - a): the comparator is NaN for counts that are
\* not numbers, which sort takes as 0; those items keep their order.
RECURSIVE InsertItem(_, _)
InsertItem(e, q) ==
  IF q = <<>> THEN <<e>>
  ELSE IF e.count.kind = "number" /\ q[1].count.kind = "number" /\ e.count.val > q[1].count.val
       THEN <<e>> \o q
  ELSE <<q[1]>> \o InsertItem(e, Tail(q))

RECURSIVE SortItems(_)
SortItems(q) ==
  IF q = <<>> THEN <<>>
  ELSE InsertItem(q[Len(q)], SortItems(SubSeq(q, 1, Len(q) - 1)))

\* totalCount > 0 ? Math.round((count / totalCount) * 1000) / 10 : 0, in
\* tenths of a percent; a total that is not a number is not > 0.
Percentage(count, total) ==
  IF total.kind = "number" /\ total.val > 0 /\ count.kind = "number"
  THEN MathRound(1000 * count.val, total.val)
  ELSE 0

\* getTopItems(type, limit) without a date range.
TopItems(t, limit, fs, ds) ==
  LET listed == ListTypes(<<t>>, fs, ds, TRUE, "none", <<>>).value
      acc == AddDocuments(listed, t, fs, [items |-> <<>>, total |-> JsNumber(0)])
      sorted == SortItems(acc.items)
      top == SubSeq(sorted, 1, IF Len(sorted) < limit THEN Len(sorted) ELSE limit)
  IN [i \in DOMAIN top |->
        [name |-> top[i].name, count |-> top[i].count,
         percentage |-> Percentage(top[i].count, acc.total)]]

getTopItems(t, limit) ==
  /\ result' = Returned(<<"top", t, limit>>, TopItems(t, limit, files, dirs))
  /\ UNCHANGED <<dirs, conv, queries, config, tz, now, analyticsBuffer, files,
                 writeInterval, timers, flights, log, call, rejected, faults,
                 ntracks, since, tracked, overlapped, stopped>>

\* convertAllAnalytics alone, with a db: the queries return rows of one or
\* of two months, and a query or a storage operation may fail.
InitConvertAll ==
  /\ InitCommon
  /\ config \in {c \in ConverterConfigs : "db" \in DOMAIN c}
  /\ call = NoCall

NextConvertAll ==
  \/ callConvertAll
  \/ \E rows \in RowLists(MaxMonthRows, {"a"}) : QueryReturns(rows)
  \/ ConvMkdirReturns
  \/ ConvWriteReturns
  \/ \E e \in QueryErrors \cup StorageErrors : ConversionFailsWith(e)

SpecConvertAll == InitConvertAll /\ [][NextConvertAll]_vars

\* A run of the converter over the rows of a database, then the query
\* service over the documents.
InitTop ==
  /\ InitCommon
  /\ config \in {[k \in {"db"} |-> rows] : rows \in {q \in RowLists(MaxRows, RowNames) : Ordered(q)}}
  /\ call = NoCall

NextTop ==
  \/ \E t \in Types : callConvert(t)
  \/ QueryReturns(config["db"])
  \/ ConvMkdirReturns
  \/ ConvWriteReturns
  \/ \E t \in Types, limit \in 1..MaxLimit : getTopItems(t, limit)

SpecTop == InitTop /\ [][NextTop]_vars

\* A converter called again over a database whose rows stay the same.
NextRepeat ==
  \/ \E t \in Types : ConvertCall(t, MaxRepeats)
  \/ QueryReturns(config["db"])
  \/ ConvMkdirReturns
  \/ ConvWriteReturns

SpecRepeat == InitTop /\ [][NextRepeat]_vars

\* ------------------------------------------------- the three writers
\* The page views of one database row or none, converted, written directly
\* and flushed from the buffer into the same store.
InitDocs ==
  /\ InitCommon
  /\ config \in {[k \in {"db"} |-> rows] : rows \in RowLists(MaxAllRows, {"a"})}
  /\ call = [pc |-> "none", n |-> 0]

NextDocs ==
  \/ callConvert(PV)
  \/ QueryReturns(config["db"])
  \/ ConvMkdirReturns
  \/ ConvWriteReturns
  \/ \E data \in StoreData : callWriteAnalytics(PV, Instants[1], data)
  \/ writeAnalyticsToMDsveX
  \/ writeAnalyticsToMDsveXFails
  \/ trackPageView
  \/ flushAnalyticsBuffer(PV)
  \/ \E f \in Slots : ReadReturns(f)
  \/ \E f \in Slots : MkdirReturns(f)
  \/ \E f \in Slots : WriteReturns(f)

SpecDocs == InitDocs /\ [][NextDocs]_vars

\* ----------------------------------------------------------- queryAnalytics
\* An optional Date argument: <<>> when absent, <<ts>> when given.
NoDate == <<>>
NoRange == [start |-> NoDate, end |-> NoDate]

\* Variant: the bounds are exclusive.
InRangeExclusive(fileDate, range) ==
  /\ (range.start # NoDate => fileDate > range.start[1])
  /\ (range.end # NoDate => fileDate < range.end[1])

\* if (startDate && fileDate < startDate) return false;
\* if (endDate && fileDate > endDate) return false; return true
InRange(fileDate, range) ==
  /\ (range.start # NoDate => ~(fileDate < range.start[1]))
  /\ (range.end # NoDate => ~(fileDate > range.end[1]))

\* files.filter(file => ...) with fileDate = new Date(file.year, file.month - 1)
FilterFilesByDateRange(listed, range, zone) ==
  SelectSeq(listed, LAMBDA f : InRange(NewDate(f.year, f.month, zone), range))

\* A header field as the query service reads it: undefined when absent.
FieldOf(fm, k) == IF k \in DOMAIN fm THEN fm[k] ELSE JsUndefined

\* The loop over the relevant files: a null read is skipped; acc is
\* [data, total, peakValue, peakDate].
RECURSIVE ReadMonths(_, _, _, _, _)
ReadMonths(relevant, t, fs, zone, acc) ==
  IF relevant = <<>> THEN acc
  ELSE LET doc == ReadAnalytics(fs, t, relevant[1].year, relevant[1].month)
           monthTotal == TotalCountOrZero(doc.frontmatter)
           monthDate == NewDate(relevant[1].year, relevant[1].month, zone)
           point == [date |-> monthDate, value |-> monthTotal,
                     metadata |-> [k \in {"uniqueCount", "averageDaily", "peakDay", "peakHour"} |->
                                     FieldOf(doc.frontmatter, k)]]
           next == IF doc.kind # "document" THEN acc
                   ELSE [data |-> Append(acc.data, point),
                         total |-> acc.total + monthTotal,
                         peakValue |-> IF monthTotal > acc.peakValue THEN monthTotal ELSE acc.peakValue,
                         peakDate |-> IF monthTotal > acc.peakValue THEN monthDate ELSE acc.peakDate]
       IN ReadMonths(Tail(relevant), t, fs, zone, next)

\* The local calendar day of an instant, counted from the first of January
\* of Year0, and date.getDay() (0 is Sunday).
LocalDayIndex(date, zone) == (date + zone) \div HoursPerDay
GetDay(date, zone) == (EpochWeekday + LocalDayIndex(date, zone)) % DaysPerWeek

\* getWeekNumber(date): the number of the week of the Thursday of the
\* date's week (Monday first), counted within the year of that Thursday.
GetWeekNumber(date, zone) ==
  LET day == LocalDayIndex(date, zone)
      dayNum == IF GetDay(date, zone) = 0 THEN DaysPerWeek ELSE GetDay(date, zone)
      thursday == day + 4 - dayNum
      daysPerYear == DaysPerMonth * MonthsPerYear
      yearStart == (thursday \div daysPerYear) * daysPerYear
  IN (thursday - yearStart + 1 + (DaysPerWeek - 1)) \div DaysPerWeek

\* getGroupKey: the UTC date for 'day', the local year with the week number
\* for 'week', the local year and month for 'month', the local year for 'year'
GetGroupKey(date, groupBy, zone) ==
  CASE groupBy = "day" -> IsoDate(date)
    [] groupBy = "week" -> <<GetFullYear(date, zone), GetWeekNumber(date, zone)>>
    [] groupBy = "month" -> <<GetFullYear(date, zone), GetMonth1(date, zone)>>
    [] groupBy = "year" -> <<GetFullYear(date, zone)>>

\* getGroupDate: local midnight of the day, the same time on the Sunday on
\* or before the date, local midnight of the first of the month, or of the year
GetGroupDate(date, groupBy, zone) ==
  CASE groupBy = "day" -> LocalDayIndex(date, zone) * HoursPerDay - zone
    [] groupBy = "week" -> date - GetDay(date, zone) * HoursPerDay
    [] groupBy = "month" -> NewDate(GetFullYear(date, zone), GetMonth1(date, zone), zone)
    [] groupBy = "year" -> NewDate(GetFullYear(date, zone), 1, zone)

\* The Map of groupData, in insertion order: acc is a sequence of
\* [key, date, value, count].
RECURSIVE GroupInto(_, _, _, _)
GroupInto(data, groupBy, zone, acc) ==
  IF data = <<>> THEN acc
  ELSE LET key == GetGroupKey(data[1].date, groupBy, zone)
           next == IF \E i \in DOMAIN acc : acc[i].key = key
                   THEN [i \in DOMAIN acc |->
                           IF acc[i].key = key
                           THEN [acc[i] EXCEPT !.value = @ + data[1].value, !.count = @ + 1]
                           ELSE acc[i]]
                   ELSE Append(acc, [key |-> key,
                                     date |-> GetGroupDate(data[1].date, groupBy, zone),
                                     value |-> data[1].value, count |-> 1])
       IN GroupInto(Tail(data), groupBy, zone, next)

\* Variant: a group carries the rounded average of its values.
GroupDataAveraged(data, groupBy, zone) ==
  LET grouped == GroupInto(data, groupBy, zone, <<>>)
  IN [i \in DOMAIN grouped |->
        [date |-> grouped[i].date, value |-> MathRound(grouped[i].value, grouped[i].count),
         metadata |-> [averageValue |-> MathRound(grouped[i].value, grouped[i].count)]]]

\* groupData(data, groupBy)
GroupData(data, groupBy, zone) ==
  LET grouped == GroupInto(data, groupBy, zone, <<>>)
  IN [i \in DOMAIN grouped |->
        [date |-> grouped[i].date, value |-> grouped[i].value,
         metadata |-> [averageValue |-> MathRound(grouped[i].value, grouped[i].count)]]]

\* The smallest and the largest of the dates of a series
MinDate(series) == CHOOSE d \in {series[i].date : i \in DOMAIN series} :
                     \A i \in DOMAIN series : d <= series[i].date
MaxDate(series) == CHOOSE d \in {series[i].date : i \in DOMAIN series} :
                     \A i \in DOMAIN series : d >= series[i].date

\* Variant: a type without relevant files gets an entry with an empty series.
QueryTypeAlwaysPushes(t, listed, fs, q, clock, zone) ==
  LET relevant == FilterFilesByDateRange(listed, [start |-> q.start, end |-> q.end], zone)
      acc == ReadMonths(relevant, t, fs, zone,
                        [data |-> <<>>, total |-> 0, peakValue |-> 0, peakDate |-> clock])
  IN <<[type |-> t,
        period |-> [start |-> clock, end |-> clock],
        data |-> acc.data,
        summary |-> [total |-> acc.total, average |-> 0,
                     peak |-> [date |-> acc.peakDate, value |-> acc.peakValue],
                     dataPoints |-> Len(acc.data)]]>>

\* The body of the loop over the types for one type, given its listing:
\* no entry without relevant files, else the entry pushed to results.
QueryType(t, listed, fs, q, clock, zone) ==
  LET relevant == FilterFilesByDateRange(listed, [start |-> q.start, end |-> q.end], zone)
      acc == ReadMonths(relevant, t, fs, zone,
                        [data |-> <<>>, total |-> 0, peakValue |-> 0, peakDate |-> clock])
      grouped == IF q.groupBy = "none" THEN acc.data ELSE GroupData(acc.data, q.groupBy, zone)
  IN IF relevant = <<>> THEN <<>>
     ELSE <<[type |-> t,
             period |-> [start |-> IF grouped = <<>> THEN clock ELSE MinDate(grouped),
                         end |-> IF grouped = <<>> THEN clock ELSE MaxDate(grouped)],
             data |-> grouped,
             summary |-> [total |-> acc.total,
                          average |-> IF Len(grouped) > 0 THEN MathRound(acc.total, Len(grouped)) ELSE 0,
                          peak |-> [date |-> acc.peakDate, value |-> acc.peakValue],
                          dataPoints |-> Len(grouped)]]>>

\* for (const type of types) { const files = await listAnalyticsFiles(type); ... }
\* A listing that raises ends the call: queryAnalytics has no catch.
RECURSIVE QueryTypes(_, _, _, _, _, _, _, _)
QueryTypes(types, fs, ds, q, fault, clock, zone, acc) ==
  IF types = <<>> THEN Returned(<<"query">>, acc)
  ELSE LET listing == ListTypes(<<types[1]>>, fs, ds, TRUE, fault, <<>>) IN
       IF listing.kind = "raised" THEN Raised(<<"query">>, listing.error)
       ELSE QueryTypes(Tail(types), fs, ds, q, fault, clock, zone,
                       acc \o QueryType(types[1], listing.value, fs, q, clock, zone))

\* queryAnalytics(query); q.type is "all" for a query without a type.
QueryAnalytics(q, fs, ds, fault, clock, zone) ==
  QueryTypes(IF q.type = "all" THEN AllTypes ELSE <<q.type>>, fs, ds, q, fault, clock, zone, <<>>)

\* A caller's queryAnalytics(query), run to completion.
queryAnalytics(q, fault) ==
  /\ result' = [QueryAnalytics(q, files, dirs, fault, Instants[now], tz)
                  EXCEPT !.op = <<"query", q, fault>>]
  /\ UNCHANGED <<dirs, conv, queries, config, tz, now, analyticsBuffer, files,
                 writeInterval, timers, flights, log, call, rejected, faults,
                 ntracks, since, tracked, overlapped, stopped>>

\* ----------------------------------------------------- getTrendingAnalytics
\* results[0]?.summary || { total: 0, average: 0 }
SummaryOrZero(results) ==
  IF results = <<>> THEN [total |-> 0, average |-> 0]
  ELSE [total |-> results[1].summary.total, average |-> results[1].summary.average]

\* previous.total > 0 ? ((current.total - previous.total) / previous.total) * 100 : 0
\* as a fraction [num, den]
PercentageChange(current, previous) ==
  IF previous.total > 0
  THEN [num |-> (current.total - previous.total) * 100, den |-> previous.total]
  ELSE [num |-> 0, den |-> 1]

\* Variant: the thresholds are inclusive.
TrendOfInclusive(change) ==
  IF change.num >= 5 * change.den THEN "up"
  ELSE IF change.num <= (0 - 5) * change.den THEN "down"
  ELSE "stable"

\* let trend = 'stable'; if (percentageChange > 5) trend = 'up';
\* else if (percentageChange < -5) trend = 'down'
TrendOf(change) ==
  IF change.num > 5 * change.den THEN "up"
  ELSE IF change.num < (0 - 5) * change.den THEN "down"
  ELSE "stable"

\* getTrendingAnalytics(type, days) when no listing raises; the
\* percentageChange Math.round(percentageChange * 10) / 10 is in tenths.
TrendingAnalytics(t, days, fs, ds, clock, zone) ==
  LET midDate == clock - days * HoursPerDay
      startDate == clock - 2 * days * HoursPerDay
      currentResults == QueryAnalytics([type |-> t, start |-> <<midDate>>, end |-> <<clock>>,
                                        groupBy |-> "none"], fs, ds, "none", clock, zone).value
      previousResults == QueryAnalytics([type |-> t, start |-> <<startDate>>, end |-> <<midDate>>,
                                         groupBy |-> "none"], fs, ds, "none", clock, zone).value
      current == SummaryOrZero(currentResults)
      previous == SummaryOrZero(previousResults)
      change == PercentageChange(current, previous)
  IN [trend |-> TrendOf(change),
      percentageChange |-> MathRound(10 * change.num, change.den),
      currentPeriod |-> current,
      previousPeriod |-> previous]

\* A caller's getTrendingAnalytics(type, days), run to completion.
getTrendingAnalytics(t, days) ==
  /\ result' = Returned(<<"trending", t, days>>,
                        TrendingAnalytics(t, days, files, dirs, Instants[now], tz))
  /\ UNCHANGED <<dirs, conv, queries, config, tz, now, analyticsBuffer, files,
                 writeInterval, timers, flights, log, call, rejected, faults,
                 ntracks, since, tracked, overlapped, stopped>>

\* The queries of SpecQuery: the whole store, or the window from the start
\* of the first month to the start of the second (UTC), by type or for all
\* types, ungrouped or regrouped.
QueryRanges == {NoRange,
                [start |-> <<0>>, end |-> <<DaysPerMonth * HoursPerDay>>],
                [start |-> <<1>>, end |-> NoDate]}
Queries == {[type |-> t, start |-> r.start, end |-> r.end, groupBy |-> g] :
              t \in {PV, EV, "all"}, r \in QueryRanges, g \in {"none", "month", "year"}}

\* The months and the totals of the documents of SpecQuery and SpecTrend:
\* the month before the first, the first and the second; totals whose
\* changes lie on both sides of 5 percent and on a half of a tenth.
QueryDates == {0 - DaysPerMonth * HoursPerDay, 0, DaysPerMonth * HoursPerDay}
QueryTotals == {0, 16}
TrendTotals == {0, 16, 17, 20, 21}

\* A caller calls writeAnalyticsToMDsveX(type, date, [one record]).
callWriteMonth(type, date, value) ==
  /\ call.pc # "ready"
  /\ call.n < MaxQueryWrites
  /\ call' = [pc |-> "ready", type |-> type, date |-> date,
              data |-> <<Record(date, value)>>, extra |-> NoExtra, n |-> call.n + 1]
  /\ UNCHANGED <<dirs, conv, queries, result, config, tz, now, analyticsBuffer, files,
                 writeInterval, timers, flights, log, rejected, faults,
                 ntracks, since, tracked, overlapped, stopped>>

InitQuery ==
  /\ InitCommon
  /\ config = EmptyConfig
  /\ call = [pc |-> "none", n |-> 0]

NextQuery ==
  \/ \E d \in QueryDates, v \in QueryTotals : callWriteMonth(PV, d, v)
  \/ writeAnalyticsToMDsveX
  \/ \E q \in Queries, fault \in {"none", <<EV, "EACCES">>} : queryAnalytics(q, fault)

SpecQuery == InitQuery /\ [][NextQuery]_vars

\* Queries of the whole store under every groupBy option, over documents
\* whose totals are of either sign.
GroupQueries == {[type |-> t, start |-> NoDate, end |-> NoDate, groupBy |-> g] :
                   t \in {PV, "all"}, g \in {"none", "day", "week", "month", "year"}}
GroupTotals == {0 - 3, 0, 5, 16}

NextGroup ==
  \/ \E d \in QueryDates, v \in GroupTotals : callWriteMonth(PV, d, v)
  \/ writeAnalyticsToMDsveX
  \/ \E q \in GroupQueries : queryAnalytics(q, "none")

SpecGroup == InitQuery /\ [][NextGroup]_vars

NextTrend ==
  \/ Tick
  \/ \E d \in QueryDates, v \in TrendTotals : callWriteMonth(PV, d, v)
  \/ writeAnalyticsToMDsveX
  \/ \E t \in {PV, EV}, days \in 1..MaxDays : getTrendingAnalytics(t, days)

SpecTrend == InitQuery /\ [][NextTrend]_vars

\* ------------------------------------------------------------ configuration
\* The keys of AnalyticsConfig and, for each, the values a call may pass.
ConfigKeys == {"db", "isDev", "dataDir", "logger"}
ConfigValues(k) ==
  CASE k = "db" -> {"db1", "db2"}
    [] k = "isDev" -> BOOLEAN
    [] k = "dataDir" -> {"content/analytics", "data"}
    [] k = "logger" -> {"logger1", "logger2"}

\* Partial<AnalyticsConfig>: the objects that carry some of the keys
PartialConfigs ==
  {[k \in keys |-> CASE k = "db" -> db
                    [] k = "isDev" -> dev
                    [] k = "dataDir" -> dir
                    [] k = "logger" -> logger] :
     keys \in SUBSET ConfigKeys,
     db \in ConfigValues("db"), dev \in ConfigValues("isDev"),
     dir \in ConfigValues("dataDir"), logger \in ConfigValues("logger")}

ReplaceConfig(old, c) == c

\* { ...config, ...c }
MergeConfig(old, c) ==
  [k \in DOMAIN old \cup DOMAIN c |-> IF k \in DOMAIN c THEN c[k] ELSE old[k]]

configureAnalytics(c) ==
  /\ config' = MergeConfig(config, c)
  /\ result' = Returned(<<"configure", c>>, <<>>)
  /\ UNCHANGED <<dirs, conv, queries, tz, now, analyticsBuffer, files, writeInterval, timers,
                 flights, log, call, rejected, faults, ntracks, since, tracked, overlapped, stopped>>

resetAnalyticsConfig ==
  /\ config' = EmptyConfig
  /\ result' = Returned(<<"reset">>, <<>>)
  /\ UNCHANGED <<dirs, conv, queries, tz, now, analyticsBuffer, files, writeInterval, timers,
                 flights, log, call, rejected, faults, ntracks, since, tracked, overlapped, stopped>>

\* getAnalyticsConfig(): the current object
getAnalyticsConfig ==
  /\ result' = Returned(<<"get">>, config)
  /\ UNCHANGED <<config, dirs, conv, queries, tz, now, analyticsBuffer, files, writeInterval, timers,
                 flights, log, call, rejected, faults, ntracks, since, tracked, overlapped, stopped>>

InitConfig ==
  /\ InitCommon
  /\ tz = 0
  /\ config = EmptyConfig
  /\ call = NoCall

NextConfig ==
  \/ \E c \in PartialConfigs : configureAnalytics(c)
  \/ resetAnalyticsConfig
  \/ getAnalyticsConfig

SpecConfig == InitConfig /\ [][NextConfig]_vars

\* A store that holds files without a header block at month paths, with
\* reads, queries and flushes of tracked page views over it.
MalformedPaths == {FilePath(PV, Year0, 1), FilePath(PV, Year0, 2)}
MalformedStores == {[p \in S |-> MalformedContent] : S \in SUBSET MalformedPaths}

InitMalformed ==
  /\ tz \in TZOffsets
  /\ now = 1
  /\ analyticsBuffer = [t \in Types |-> <<>>]
  /\ files \in MalformedStores
  /\ dirs = {<<p[1], p[2]>> : p \in DOMAIN files}
  /\ writeInterval = 0
  /\ timers = {}
  /\ flights = [f \in 1..MaxFlights |-> IdleFlight]
  /\ log = <<>>
  /\ rejected = FALSE
  /\ faults = 0
  /\ ntracks = 0
  /\ since = [t \in Types |-> 0]
  /\ tracked = [t \in Types |-> [x \in {} |-> 0]]
  /\ overlapped = FALSE
  /\ stopped = FALSE
  /\ conv = Counted(IdleConv, 0)
  /\ queries = <<>>
  /\ result = NoResult
  /\ config = EmptyConfig
  /\ call = NoCall

NextMalformed ==
  \/ Tick
  \/ trackPageView
  \/ flushAnalyticsBuffer(PV)
  \/ \E f \in Slots : ReadReturns(f)
  \/ \E f \in Slots : MkdirReturns(f)
  \/ \E f \in Slots : WriteReturns(f)
  \/ \E type \in {PV, EV}, key \in ReadKeys : readAnalyticsFromMDsveX(type, key[1], key[2], "none")
  \/ \E q \in Queries : queryAnalytics(q, "none")

SpecMalformed == InitMalformed /\ [][NextMalformed]_vars

\* ------------------------------------------------------------ specifications
Next ==
  \/ Tick
  \/ trackPageView
  \/ \E p \in 0..MaxParticipants : trackEvent(p)
  \/ trackUserActivity
  \/ \E type \in Types \cup {"all"} : flushAnalyticsBuffer(type)
  \/ \E f \in Slots : ReadReturns(f)
  \/ \E f \in Slots : MkdirReturns(f)
  \/ \E f \in Slots : WriteReturns(f)
  \/ \E f \in Slots : StorageFails(f)
  \/ clearAnalyticsBuffer

Spec == Init /\ [][Next]_vars

\* The periodic writer: start, stop and the timer, with tracking and flushing.
InitTimer ==
  /\ InitCommon
  /\ config = EmptyConfig
  /\ call = NoCall

NextTimer ==
  \/ startAnalyticsWriter
  \/ stopAnalyticsWriter
  \/ TimerFires
  \/ trackPageView
  \/ \E p \in 0..MaxParticipants : trackEvent(p)
  \/ trackUserActivity
  \/ \E f \in Slots : ReadReturns(f)
  \/ \E f \in Slots : MkdirReturns(f)
  \/ \E f \in Slots : WriteReturns(f)
  \/ \E f \in Slots : StorageFails(f)

SpecTimer == InitTimer /\ [][NextTimer]_vars

\* The periodic writer while it runs and storage succeeds: the writer is
\* started and never stopped, no storage operation fails.  The interval
\* timer keeps firing while it is set, and a storage operation that a flush
\* awaits completes.
NextLive ==
  \/ startAnalyticsWriter
  \/ TimerFires
  \/ trackPageView
  \/ \E p \in 0..MaxParticipants : trackEvent(p)
  \/ trackUserActivity
  \/ \E f \in Slots : ReadReturns(f)
  \/ \E f \in Slots : MkdirReturns(f)
  \/ \E f \in Slots : WriteReturns(f)

FairLive ==
  /\ WF_vars(TimerFires)
  /\ \A f \in 1..MaxFlights :
       WF_vars(ReadReturns(f)) /\ WF_vars(MkdirReturns(f)) /\ WF_vars(WriteReturns(f))

SpecLive == InitTimer /\ [][NextLive]_vars /\ FairLive

\* Flushes of the page views that overlap: a second execution may start
\* while another is suspended at a storage operation.  No storage
\* operation fails.
InitOverlap ==
  /\ tz = 0
  /\ now = 1
  /\ analyticsBuffer = [t \in Types |-> <<>>]
  /\ files = [p \in {} |-> Null]
  /\ dirs = {}
  /\ writeInterval = 0
  /\ timers = {}
  /\ flights = [f \in 1..MaxOverlap |-> IdleFlight]
  /\ log = <<>>
  /\ rejected = FALSE
  /\ faults = 0
  /\ ntracks = 0
  /\ since = [t \in Types |-> 0]
  /\ tracked = [t \in Types |-> [x \in {} |-> 0]]
  /\ overlapped = FALSE
  /\ stopped = FALSE
  /\ conv = Counted(IdleConv, 0)
  /\ queries = <<>>
  /\ result = NoResult
  /\ config = EmptyConfig
  /\ call = NoCall

NextOverlap ==
  \/ Tick
  \/ trackPageView
  \/ startAnalyticsWriter
  \/ TimerFires
  \/ flushAnalyticsBuffer(PV)
  \/ \E f \in Slots : ReadReturns(f)
  \/ \E f \in Slots : MkdirReturns(f)
  \/ \E f \in Slots : WriteReturns(f)

SpecOverlap == InitOverlap /\ [][NextOverlap]_vars

\* A flush that fails and is tried again: page views are tracked across the
\* month end, one storage operation of a flush may fail, and
\* flushAnalyticsBuffer('page-views') is called again afterwards.
NextRetry ==
  \/ Tick
  \/ trackPageView
  \/ flushAnalyticsBuffer(PV)
  \/ \E f \in Slots : ReadReturns(f)
  \/ \E f \in Slots : MkdirReturns(f)
  \/ \E f \in Slots : WriteReturns(f)
  \/ \E f \in Slots : StorageFails(f)

SpecRetry == InitTimer /\ [][NextRetry]_vars

\* Dev mode: isDev is configured and the thresholds are within reach.
InitDev ==
  /\ InitCommon
  /\ config = ConfigWith("isDev", TRUE)
  /\ call = NoCall

NextDev ==
  \/ Track(PV, 1, MaxDevTracks)
  \/ Track(EV, 1, MaxDevTracks)
  \/ Track(UA, 1, MaxDevTracks)
  \/ \E f \in Slots : ReadReturns(f)
  \/ \E f \in Slots : MkdirReturns(f)
  \/ \E f \in Slots : WriteReturns(f)
  \/ \E f \in Slots : StorageFails(f)

SpecDev == InitDev /\ [][NextDev]_vars

\* ------------------------------------------------------------------ claims
IsPrefix(a, b) == Len(a) <= Len(b) /\ SubSeq(b, 1, Len(a)) = a
SeqRange(q) == {q[i] : i \in DOMAIN q}

\* Steps of the flushAnalyticsBuffer execution in slot f.
FlushStep(f) == InFlight(f) /\ flights'[f] # flights[f]
FlushFailsAt(f) == FlushStep(f) /\ faults' = faults + 1
WriteStep(f) == FlushStep(f) /\ flights[f].pc = "write" /\ faults' = faults
CompletesType(f) ==
  /\ WriteStep(f)
  /\ flights[f].k = Len(MonthKeys(flights[f].snap, tz))

FlightKey(f) == MonthKeys(flights[f].snap, tz)[flights[f].k]
FlightPath(f) == FilePath(flights[f].t, FlightKey(f)[1], FlightKey(f)[2])
FlightData(f) == MonthData(flights[f].snap, tz, FlightKey(f))

\* totalCount in the header of the document at a path, 0 without a document
HeaderTotal(fs, path) ==
  IF path \in DOMAIN fs THEN fs[path].header.totalCount.text ELSE 0

\* C1: a record appended to a type's buffer while a flush of that type is
\* suspended at storage I/O is still in the buffer when that flush finishes
\* the type: the flush removes only the records it had grouped.
C1_NoRecordLostByFlush ==
  [][\A f \in Slots :
       (CompletesType(f) /\ IsPrefix(flights[f].snap, analyticsBuffer[flights[f].t]))
         => analyticsBuffer'[flights[f].t] =
              SubSeq(analyticsBuffer[flights[f].t], Len(flights[f].snap) + 1,
                     Len(analyticsBuffer[flights[f].t]))]_vars

\* C2: a flush that fails at a storage read or write leaves the buffers as
\* they were (so the records it had grouped are still there for a retry);
\* a flush changes a buffer only in the step that completes the write of the
\* last month of the type.
C2_FailedFlushKeepsBuffer ==
  [][\A f \in Slots :
       /\ FlushFailsAt(f) =>
            /\ analyticsBuffer' = analyticsBuffer
            /\ IsPrefix(flights[f].snap, analyticsBuffer[flights[f].t])
                 => IsPrefix(flights[f].snap, analyticsBuffer'[flights[f].t])
       /\ (FlushStep(f) /\ analyticsBuffer' # analyticsBuffer) => CompletesType(f)]_vars

C2_Witness ==
  /\ faults = 1
  /\ ~AnyInFlight
  /\ Len(log) = 1
  /\ Len(analyticsBuffer[log[1].type]) = 2
  /\ \E p \in DOMAIN files : p[1] = log[1].type

\* C3: flushAnalyticsBuffer never raises to its caller; a storage failure is
\* reported once, at level error, through the logger when one is configured
\* and through console.error otherwise, and no targeted type with a non-empty
\* buffer is dropped from the call: it is flushed next or is still to visit.
C3_FlushNeverRaises ==
  /\ [](rejected = FALSE)
  /\ [][\A f \in Slots : FlushFailsAt(f) =>
          /\ log' = Append(log, [level |-> "error",
                                 channel |-> IF "logger" \in DOMAIN config
                                             THEN "logger" ELSE "console",
                                 type |-> flights[f].t])
          /\ \A i \in DOMAIN flights[f].rest :
               analyticsBuffer[flights[f].rest[i]] # <<>>
                 => /\ flights'[f].pc = "read"
                    /\ \/ /\ flights'[f].t = flights[f].rest[i]
                          /\ flights'[f].snap = analyticsBuffer[flights[f].rest[i]]
                       \/ flights[f].rest[i] \in SeqRange(flights'[f].rest)]_vars

C3_Witness ==
  /\ faults = 1
  /\ ~AnyInFlight
  /\ ~rejected
  /\ Len(log) = 1
  /\ log[1].type = PV
  /\ analyticsBuffer[PV] # <<>>
  /\ analyticsBuffer[EV] = <<>>
  /\ \E p \in DOMAIN files : p[1] = EV
  /\ \A p \in DOMAIN files : p[1] # PV

\* C4: a write of a flush puts in the header the totalCount persisted before
\* plus the sum of the batch (the batch sum alone without a document); and,
\* when no call overlapped a flush and no storage operation failed, the
\* persisted totalCount of each (type, year, month) plus the values still
\* buffered for it equals the sum of the values tracked for it.
C4_Conservation ==
  (~overlapped /\ faults = 0 /\ ~AnyInFlight) =>
    \A t \in Types : \A key \in DOMAIN tracked[t] :
      HeaderTotal(files, FilePath(t, key[1], key[2]))
        + BufferSumAt(analyticsBuffer[t], tz, key) = tracked[t][key]

C4_Additive ==
  \A f \in Slots :
    (WriteStep(f) /\ ~overlapped) =>
      HeaderTotal(files', FlightPath(f)) =
        HeaderTotal(files, FlightPath(f)) + SumValues(FlightData(f))

C4_MergeIsAdditive == [](C4_Conservation) /\ [][C4_Additive]_vars

\* A merged document: its header total exceeds what its own batch adds up to.
C4_Witness ==
  /\ ~overlapped /\ faults = 0 /\ ~AnyInFlight
  /\ \E p \in DOMAIN files :
       /\ files[p].header.totalCount.text = 2
       /\ Len(files[p].body) = 1
       /\ files[p].body[1].total = 1

TrackStep(t) ==
  /\ ntracks' = ntracks + 1
  /\ Len(analyticsBuffer'[t]) = Len(analyticsBuffer[t]) + 1

C6_DevAutoFlush ==
  [][/\ \A t \in Types :
          (TrackStep(t) /\ isDev /\ Len(analyticsBuffer'[t]) >= Threshold(t))
            => \E f \in Slots :
                 /\ ~InFlight(f)
                 /\ flights'[f].pc = "read"
                 /\ flights'[f].t = t
                 /\ flights'[f].rest = <<>>
                 /\ flights'[f].snap = analyticsBuffer'[t]
     /\ \A f \in Slots :
          (FlushStep(f) /\ flights'[f].pc = "idle" /\ faults' = faults)
            => /\ flights[f].pc = "write"
               /\ FlightPath(f) \in DOMAIN files'
               /\ analyticsBuffer'[flights[f].t] = <<>>]_vars

C6_Witness ==
  /\ isDev
  /\ faults = 0
  /\ ~AnyInFlight
  /\ analyticsBuffer[EV] = <<>>
  /\ \E p \in DOMAIN files :
       p[1] = EV /\ files[p].header.totalCount.text = EventThreshold

\* C7: at most one interval timer is active, it is the one writeInterval
\* holds, and none is active when writeInterval is null (after a stop).
C7_AtMostOneTimer ==
  /\ Cardinality(timers) <= 1
  /\ writeInterval = 0 => timers = {}
  /\ writeInterval # 0 => timers = {writeInterval}

C7_Witness == stopped /\ writeInterval # 0 /\ Cardinality(timers) = 1

\* C8: the step in which stopAnalyticsWriter clears the timer changes no
\* buffer and no document.
C8_StopDrainsNothing ==
  [][(writeInterval # 0 /\ writeInterval' = 0)
       => (analyticsBuffer' = analyticsBuffer /\ files' = files)]_vars

C8_Witness ==
  /\ stopped
  /\ writeInterval = 0
  /\ analyticsBuffer[PV] # <<>>
  /\ DOMAIN files # {}

\* C9: without a totalCount override, the totalCount in the header of the
\* written document is the sum of the records' values.
RECURSIVE WeightedCount(_, _)
WeightedCount(data, v) ==
  IF v = 0 THEN 0
  ELSE v * Cardinality({i \in DOMAIN data : data[i].value = v}) + WeightedCount(data, v - 1)

CallPath == WritePath(call.type, call.date, tz)

C9_TotalIsSum ==
  (call.pc = "done" /\ "totalCount" \notin DOMAIN call.extra) =>
    /\ CallPath \in DOMAIN files
    /\ files[CallPath].header.totalCount =
         [quoted |-> FALSE, lex |-> "number", text |-> WeightedCount(call.data, MaxValue)]

C9_Witness ==
  /\ call.pc = "done"
  /\ "totalCount" \notin DOMAIN call.extra
  /\ Len(call.data) = 3
  /\ files[CallPath].header.totalCount.text = 5

\* C10: uniqueCount in the header is the number of distinct calendar (ISO)
\* dates that carry at least one record; for an empty list uniqueCount and
\* averageDaily are 0, peakDay is the empty string and peakHour is 0.
DatesPresent(data) ==
  {d \in {IsoDate(ts) : ts \in DataInstants} : \E i \in DOMAIN data : IsoDate(data[i].timestamp) = d}

C10_UniqueCountIsDays ==
  call.pc = "done" =>
    LET h == files[CallPath].header IN
    /\ h.uniqueCount = [quoted |-> FALSE, lex |-> "number",
                         text |-> Cardinality(DatesPresent(call.data))]
    /\ call.data = <<>> =>
         /\ h.uniqueCount.text = 0
         /\ h.averageDaily = [quoted |-> FALSE, lex |-> "number", text |-> 0]
         /\ h.peakDay = [quoted |-> TRUE, lex |-> "empty", text |-> <<>>]
         /\ h.peakHour = [quoted |-> FALSE, lex |-> "number", text |-> 0]

\* Three records at three instants of two dates.
C10_Witness ==
  /\ call.pc = "done"
  /\ Len(call.data) = 3
  /\ Cardinality({call.data[i].timestamp : i \in DOMAIN call.data}) = 3
  /\ files[CallPath].header.uniqueCount.text = 2

C10_WitnessEmpty ==
  /\ call.pc = "done"
  /\ call.data = <<>>
  /\ files[CallPath].header.peakDay.text = <<>>

\* C11: a read of the key of a completed writeAnalyticsToMDsveX returns a
\* document (not null) whose frontmatter has type, year, month, totalCount
\* and uniqueCount equal to the written values and of their types: type a
\* string, the four others numbers.
ReadOf(type, year, month) ==
  /\ result.kind = "returned"
  /\ result.op = <<"read", type, year, month, "none">>

WrittenFrontmatter ==
  MergeFrontmatter(BaseFrontmatter(call.type, call.date, call.data, tz), call.extra)

C11_RoundTrip ==
  (call.pc = "done" /\ ReadOf(call.type, GetFullYear(call.date, tz), GetMonth1(call.date, tz)))
    => /\ result.value.kind = "document"
       /\ result.value.frontmatter.type = [kind |-> "string", val |-> call.type]
       /\ \A k \in {"year", "month", "totalCount", "uniqueCount"} :
            result.value.frontmatter[k] = [kind |-> "number", val |-> WrittenFrontmatter[k]]

C11_Witness ==
  /\ call.pc = "done"
  /\ call.extra = NoExtra
  /\ Len(call.data) = 2
  /\ ReadOf(call.type, GetFullYear(call.date, tz), GetMonth1(call.date, tz))
  /\ result.value.frontmatter.totalCount.val = 3
  /\ result.value.frontmatter.uniqueCount.val = 2
  /\ result.value.frontmatter.month.val = 2

\* The call of the last result, its arguments and storage errors.
IsRead == result.kind # "none" /\ result.op[1] = "read"
IsList == result.kind # "none" /\ result.op[1] = "list"
ListedTypes == IF result.op[2] = "all" THEN AllTypes ELSE <<result.op[2]>>

\* C13: a read of a key without a document, when the storage reports
\* nothing but the absence, returns null and does not raise; a listing whose
\* directory reads report nothing but absences returns a list without any
\* entry of a type whose directory does not exist (the empty list when none
\* exists).
C13_NotFoundIsAbsent ==
  /\ (IsRead /\ FilePath(result.op[2], result.op[3], result.op[4]) \notin DOMAIN files
             /\ result.op[5] \notin StorageErrors)
       => (result.kind = "returned" /\ result.value = Null)
  /\ (IsList /\ \A i \in DOMAIN result.op[3] : result.op[3][i] \notin StorageErrors)
       => /\ result.kind = "returned"
          /\ \A i \in DOMAIN ListedTypes :
               (\A d \in dirs : d[1] # ListedTypes[i])
                 => \A j \in DOMAIN result.value : result.value[j].type # ListedTypes[i]
          /\ (\A i \in DOMAIN ListedTypes : \A d \in dirs : d[1] # ListedTypes[i])
               => result.value = <<>>

\* A read of a missing month of a type that has a document of another month.
C13_Witness ==
  /\ IsRead
  /\ result.op[5] = "ENOENT"
  /\ result.kind = "returned"
  /\ result.value = Null
  /\ \E p \in DOMAIN files : p[1] = result.op[2] /\ p[2] = result.op[3]

\* A listing of all types of which one has no directory and one has entries.
C13_WitnessList ==
  /\ IsList
  /\ result.op[2] = "all"
  /\ result.op[3] = <<"none", "none", "ENOENT">>
  /\ result.kind = "returned"
  /\ Len(result.value) = 2

\* C14: a read whose storage call fails with an error other than ENOENT,
\* and a listing one of whose directory reads fails with such an error, raise
\* that same error to the caller; they return neither null nor a list.
C14_OtherErrorsReraised ==
  /\ (IsRead /\ result.op[5] \in StorageErrors)
       => (result.kind = "raised" /\ result.error = result.op[5])
  /\ \A i \in 1..Len(AllTypes) :
       (/\ IsList
        /\ i \in DOMAIN result.op[3]
        /\ result.op[3][i] \in StorageErrors
        /\ \A j \in 1..(i - 1) : result.op[3][j] \notin StorageErrors)
         => (result.kind = "raised" /\ result.error = result.op[3][i])

\* A listing of all types that fails at the second directory, after entries
\* of the first have been collected.
C14_Witness ==
  /\ IsList
  /\ result.op[2] = "all"
  /\ result.op[3][1] = "none"
  /\ result.op[3][2] = "EIO"
  /\ result.kind = "raised"
  /\ result.error = "EIO"
  /\ \E p \in DOMAIN files : p[1] = PV /\ IsYearName(p[2]) /\ IsMonthFile(p[3])

C14_WitnessRead ==
  /\ IsRead
  /\ result.kind = "raised"
  /\ result.error = "EACCES"
  /\ FilePath(result.op[2], result.op[3], result.op[4]) \in DOMAIN files

\* C15: a listing that returns holds exactly one entry per document stored
\* under a four-digit year directory and a two-digit month file name of the
\* listed types, with the document's type, year, month and path, in
\* descending order of (year, month); and a listing that follows a listing
\* with the same argument returns the same list.
ListedDocuments ==
  {p \in DOMAIN files : /\ \E i \in DOMAIN ListedTypes : p[1] = ListedTypes[i]
                       /\ p[2] >= 1000 /\ p[2] <= 9999
                       /\ Len(p[3]) = 2}

C15_ListIsExact ==
  (IsList /\ result.kind = "returned") =>
    /\ {result.value[i].path : i \in DOMAIN result.value} = ListedDocuments
    /\ Len(result.value) = Cardinality(ListedDocuments)
    /\ \A i \in DOMAIN result.value :
         /\ result.value[i].type = result.value[i].path[1]
         /\ result.value[i].year = result.value[i].path[2]
         /\ result.value[i].month = 10 * result.value[i].path[3][1] + result.value[i].path[3][2]
    /\ \A i, j \in DOMAIN result.value :
         i < j => \/ result.value[i].year > result.value[j].year
                  \/ /\ result.value[i].year = result.value[j].year
                     /\ result.value[i].month >= result.value[j].month

C15_ListIsIdempotent ==
  (/\ IsList /\ result.kind = "returned"
   /\ result'.kind = "returned" /\ result'.op[1] = "list" /\ result'.op[2] = result.op[2])
    => result'.value = result.value

C15_ListExactSortedIdempotent == [](C15_ListIsExact) /\ [][C15_ListIsIdempotent]_vars

\* A listing of all types over written and foreign documents: three
\* entries, the first of the later month.
C15_Witness ==
  /\ IsList
  /\ result.op[2] = "all"
  /\ result.kind = "returned"
  /\ Len(result.value) = 3
  /\ Cardinality(DOMAIN files) = 5
  /\ result.value[1].year = Year0 /\ result.value[1].month = 2
  /\ result.value[2].year = Year0 /\ result.value[2].month = 1
  /\ result.value[3].year = Year0 - 1 /\ result.value[3].month = 13

IsConvert == result.kind # "none" /\ result.op[1] = "convert"
IsConvertAll == result.kind # "none" /\ result.op[1] = "convertAll"
SingleCallStep == conv.pc = "idle" /\ conv'.n = conv.n + 1 /\ log' = log

\* C16: without a db adapter a call of one of the three conversions ends by
\* raising the 'No DatabaseAdapter configured' error within the call: no
\* query is issued, no document or directory is written, nothing is awaited.
C16_NoDbFailsFast ==
  /\ [](~HasDb => (queries = <<>> /\ DOMAIN files = {} /\ dirs = {} /\ conv.pc = "idle"))
  /\ [][(SingleCallStep /\ ~HasDb) =>
          \E t \in Types : result' = Raised(<<"convert", t, <<>>>>, NoDatabaseAdapter)]_vars

C16_Witness ==
  /\ ~HasDb
  /\ IsConvert
  /\ result.kind = "raised"
  /\ result.op[2] = EV
  /\ log = <<>>

\* C17: when the query or a storage operation fails in a single conversion,
\* exactly one entry is logged, at level error, on the logger when one is
\* configured and on the console otherwise, and the call ends by raising the
\* error of the failed operation.
C17_FailureLoggedOnceAndRaised ==
  [][(faults' = faults + 1 /\ ~conv.all) =>
       /\ log' = Append(log, [level |-> "error",
                              channel |-> IF "logger" \in DOMAIN config
                                          THEN "logger" ELSE "console",
                              type |-> conv.t])
       /\ result'.kind = "raised"
       /\ result'.op = <<"convert", conv.t, conv.rows>>
       /\ conv.pc = "query" => result'.error \in QueryErrors
       /\ conv.pc # "query" => result'.error \in StorageErrors
       /\ conv'.pc = "idle"]_vars

\* A write of the second month failed after the first month was written.
C17_Witness ==
  /\ IsConvert
  /\ result.kind = "raised"
  /\ result.error = "EIO"
  /\ Len(log) = 1
  /\ log[1].channel = "logger"
  /\ Cardinality(DOMAIN files) = 1

\* C18: convertAllAnalytics does not raise; and when it is the one converter
\* call made so far, with a db it has issued the three queries in the order
\* page views, events, user activity whatever failed, and its result has the
\* empty list for a conversion that failed and, for one that succeeded, the
\* paths of the documents it wrote.
FailedTypes == {log[i].type : i \in DOMAIN log}
PathsOfType(t) == {p \in DOMAIN files : p[1] = t}

C18_ConvertAllNeverRaises ==
  IsConvertAll =>
    /\ result.kind = "returned"
    /\ (conv.pc = "idle" /\ conv.n = 1) =>
         /\ HasDb => queries = <<PV, EV, UA>>
         /\ ~HasDb => (queries = <<>> /\ FailedTypes = Types)
         /\ \A t \in Types :
              LET paths == result.value[OutField(t)] IN
              /\ t \in FailedTypes => paths = <<>>
              /\ t \notin FailedTypes =>
                   /\ {paths[i] : i \in DOMAIN paths} = PathsOfType(t)
                   /\ Len(paths) = Cardinality(PathsOfType(t))

\* The event conversion failed, the two others wrote a document each.
C18_Witness ==
  /\ IsConvertAll
  /\ result.kind = "returned"
  /\ FailedTypes = {EV}
  /\ queries = <<PV, EV, UA>>
  /\ Len(result.value.pageViews) = 1
  /\ result.value.events = <<>>
  /\ Len(result.value.userActivity) = 1

\* C19: a conversion that returns has issued one query and written one
\* document per month that has a row, no other; it returns the paths of
\* these documents, none for no rows; and the document of a month counts
\* the rows of that month only (totalCount is their number for page views
\* and activities, the sum of their participants for events).
RowMonths(rows) == {MonthKeyOf(rows[i], tz) : i \in DOMAIN rows}
RowsOfMonth(rows, key) == {i \in DOMAIN rows : MonthKeyOf(rows[i], tz) = key}
RECURSIVE PointsOf(_)
PointsOf(body) == IF body = <<>> THEN 0 ELSE body[1].points + PointsOf(Tail(body))

C19_OneDocumentPerMonth ==
  (IsConvert /\ result.kind = "returned" /\ conv.n = 1) =>
    LET t == result.op[2]
        rows == result.op[3]
        paths == result.value
    IN /\ queries = <<t>>
       /\ Len(paths) = Cardinality(RowMonths(rows))
       /\ {paths[i] : i \in DOMAIN paths} = {FilePath(t, key[1], key[2]) : key \in RowMonths(rows)}
       /\ DOMAIN files = {paths[i] : i \in DOMAIN paths}
       /\ rows = <<>> => (paths = <<>> /\ DOMAIN files = {})
       /\ \A key \in RowMonths(rows) :
            LET doc == files[FilePath(t, key[1], key[2])] IN
            /\ PointsOf(doc.body) = Cardinality(RowsOfMonth(rows, key))
            /\ t # EV => doc.header.totalCount.text = Cardinality(RowsOfMonth(rows, key))
            /\ t = EV => doc.header.totalEvents.text = Cardinality(RowsOfMonth(rows, key))

\* Two page views of two months: two documents of one view each.
C19_Witness ==
  /\ IsConvert
  /\ result.kind = "returned"
  /\ result.op[2] = PV
  /\ Len(result.op[3]) = 2
  /\ Len(result.value) = 2
  /\ \A p \in DOMAIN files : files[p].header.totalCount.text = 1

C19_WitnessNoRows ==
  /\ IsConvert
  /\ result.kind = "returned"
  /\ result.op[3] = <<>>
  /\ result.value = <<>>
  /\ queries # <<>>

\* C20: getTopItems over the documents a conversion of the database rows
\* has written returns at most `limit` items, one per name (path, event
\* type, activity type) of the rows, in descending order of count; the count
\* of an item is the number of rows of that name (the sum of its counts in
\* the months' breakdowns) and its percentage its share of all rows, rounded
\* to a tenth.
IsTop == result.kind # "none" /\ result.op[1] = "top"
Converted(t) == conv.pc = "idle" /\ queries = <<t>> /\ conv.n = 1
RowNamesOf(rows) == {rows[i].name : i \in DOMAIN rows}
RowsNamed(rows, n) == Cardinality({i \in DOMAIN rows : rows[i].name = n})

C20_TopItemsOfConverted ==
  (IsTop /\ Converted(result.op[2])) =>
    LET rows == config["db"]
        limit == result.op[3]
        items == result.value
        names == RowNamesOf(rows)
    IN /\ Len(items) = (IF Cardinality(names) < limit THEN Cardinality(names) ELSE limit)
       /\ \A i \in DOMAIN items :
            /\ items[i].name.kind = "string"
            /\ items[i].count.kind = "number"
            /\ items[i].name.val \in names
            /\ items[i].count.val = RowsNamed(rows, items[i].name.val)
            /\ items[i].percentage = MathRound(1000 * items[i].count.val, Len(rows))
       /\ \A i, j \in DOMAIN items :
            i < j => (items[i].name # items[j].name /\ items[i].count.val >= items[j].count.val)

\* C12: each document of the store is at the path <type>/<year>/<two-digit
\* month> of its key, so that a key has at most one document; and a step
\* that changes the store is the completion of one pending write (of a
\* direct call, of a flush or of a conversion): it puts the content of that
\* write, whole, at the path of its key and leaves every other document as
\* it was.
KeyOfPath(p) == <<p[1], p[2], ParseMonth(p[3])>>

PendingWrites ==
  (IF call.pc = "ready"
   THEN {<<WritePath(call.type, call.date, tz),
           DocumentContent(call.type, call.date, call.data, call.extra, tz)>>}
   ELSE {})
  \cup
  {<<FlightPath(f),
     DocumentContent(flights[f].t, NewDate(FlightKey(f)[1], FlightKey(f)[2], tz),
                     FlightData(f), flights[f].extra, tz)>> :
     f \in {g \in Slots : flights[g].pc = "write"}}
  \cup
  (IF conv.pc = "write"
   THEN {<<FilePath(conv.t, ConvMonth(conv)[1], ConvMonth(conv)[2]),
           DocumentContent(conv.t, ConvDate(conv), ConvData(conv),
                           ConvertExtra(conv.t, ConvData(conv)), tz)>>}
   ELSE {})

C12_OnePathPerKey ==
  /\ \A p \in DOMAIN files :
       /\ p[1] \in Types
       /\ Len(p[3]) = 2
       /\ KeyOfPath(p)[3] \in 1..MonthsPerYear
  /\ \A p, q \in DOMAIN files : KeyOfPath(p) = KeyOfPath(q) => p = q

C12_WriteReplacesWhole ==
  files' # files =>
    \E w \in PendingWrites :
      /\ DOMAIN files' = DOMAIN files \cup {w[1]}
      /\ files'[w[1]] = w[2]
      /\ \A p \in DOMAIN files : p # w[1] => files'[p] = files[p]

C12_OneDocumentPerKey == [](C12_OnePathPerKey) /\ [][C12_WriteReplacesWhole]_vars

\* The month's document was written by the conversion and then replaced by
\* a direct write: nothing of the conversion's header is left.
C12_Witness ==
  /\ conv.pc = "idle" /\ conv.n = 1
  /\ result.kind = "returned" /\ result.op[1] = "write"
  /\ call.pc = "done"
  /\ Len(config["db"]) = 1
  /\ FilePath(PV, MonthKeyOf(config["db"][1], tz)[1], MonthKeyOf(config["db"][1], tz)[2]) = CallPath
  /\ "topPaths" \notin DOMAIN files[CallPath].header
  /\ ntracks = 0

\* C21: getTrendingAnalytics returns as percentageChange the change
\* (current total - previous total) / previous total * 100 rounded to a
\* nearest tenth when the previous total is > 0, and 0 otherwise; the trend is
\* 'up' when that change is > 5, 'down' when it is < -5, else 'stable'; and
\* when the store has no document of the type with its month in either
\* window, the trend is 'stable', the change 0 and both totals 0.
IsTrending == result.kind = "returned" /\ result.op[1] = "trending"
Distance(a, b) == IF a >= b THEN a - b ELSE b - a
MonthStart(p) == NewDate(p[2], ParseMonth(p[3]), tz)
DocsBetween(t, lo, hi) ==
  {p \in DOMAIN files : p[1] = t /\ lo <= MonthStart(p) /\ MonthStart(p) <= hi}

C21_ChangeAndTrend ==
  IsTrending =>
    LET cur == result.value.currentPeriod.total
        prev == result.value.previousPeriod.total
        tenths == result.value.percentageChange
    IN /\ prev > 0 =>
            /\ 2 * Distance(tenths * prev, (cur - prev) * 1000) <= prev
            /\ result.value.trend = "up" <=> (cur - prev) * 100 > 5 * prev
            /\ result.value.trend = "down" <=> (cur - prev) * 100 < (0 - 5) * prev
       /\ prev <= 0 => (tenths = 0 /\ result.value.trend = "stable")
       /\ result.value.trend \in {"up", "down", "stable"}

\* A step of a call of the query service: it leaves the store, the clock
\* and the pending write as they are and sets the result.
QueryServiceStep ==
  files' = files /\ now' = now /\ call' = call /\ dirs' = dirs /\ result'.kind # "none"

C21_EmptyWindows ==
  (QueryServiceStep /\ result'.kind = "returned" /\ result'.op[1] = "trending"
   /\ DocsBetween(result'.op[2], Instants[now] - 2 * result'.op[3] * HoursPerDay, Instants[now]) = {})
    => /\ result'.value.trend = "stable"
       /\ result'.value.percentageChange = 0
       /\ result'.value.currentPeriod.total = 0
       /\ result'.value.previousPeriod.total = 0

C21_TrendOfChange == [](C21_ChangeAndTrend) /\ [][C21_EmptyWindows]_vars

\* A change of exactly 5 percent (20 to 21): stable, 5.0.
C21_Witness ==
  /\ IsTrending
  /\ result.value.previousPeriod.total = 20
  /\ result.value.currentPeriod.total = 21
  /\ result.value.trend = "stable"
  /\ result.value.percentageChange = 50

\* A change of 6.25 percent (16 to 17), on a half of a tenth: up, 6.3.
C21_WitnessUp ==
  /\ IsTrending
  /\ result.value.previousPeriod.total = 16
  /\ result.value.currentPeriod.total = 17
  /\ result.value.trend = "up"
  /\ result.value.percentageChange = 63

\* A type without documents while the other has some.
C21_WitnessEmpty ==
  /\ IsTrending
  /\ result.op[2] = EV
  /\ DOMAIN files # {}
  /\ result.value.trend = "stable"
  /\ result.value.percentageChange = 0

\* C22: a queryAnalytics call whose storage calls do not fail returns; its
\* result has no entry for a type that has no document in the store whose
\* month lies in the range of the query, and is the empty list when no
\* queried type has one.
QueriedTypes(q) == IF q.type = "all" THEN Types ELSE {q.type}
MatchingDocs(t, q) ==
  {p \in DOMAIN files :
     /\ p[1] = t
     /\ (q.start # NoDate => MonthStart(p) >= q.start[1])
     /\ (q.end # NoDate => MonthStart(p) <= q.end[1])}
EntryTypes(results) == {results[i].type : i \in DOMAIN results}

C22_NoDocumentNoEntry ==
  (QueryServiceStep /\ result'.op[1] = "query") =>
    LET q == result'.op[2] IN
    /\ result'.op[3] = "none" => result'.kind = "returned"
    /\ result'.kind = "returned" =>
         /\ \A t \in Types :
              (t \notin QueriedTypes(q) \/ MatchingDocs(t, q) = {}) =>
                t \notin EntryTypes(result'.value)
         /\ (\A t \in QueriedTypes(q) : MatchingDocs(t, q) = {}) => result'.value = <<>>

C22_AbsentIsNoEntry == [][C22_NoDocumentNoEntry]_vars

\* A query of all types over a store that has page views only: one entry.
C22_Witness ==
  /\ result.kind = "returned" /\ result.op[1] = "query"
  /\ result.op[2].type = "all"
  /\ result.op[2].start = NoDate /\ result.op[2].end = NoDate
  /\ DOMAIN files # {}
  /\ EntryTypes(result.value) = {PV}

\* A query of the page views from a date on that lies after every document.
C22_WitnessEmpty ==
  /\ result.kind = "returned" /\ result.op[1] = "query"
  /\ result.op[2].type = PV
  /\ result.op[2].start # NoDate
  /\ DOMAIN files # {}
  /\ \A p \in DOMAIN files : MonthStart(p) < result.op[2].start[1]
  /\ call.pc = "done" /\ call.n = MaxQueryWrites
  /\ result.value = <<>>

\* C23: the configuration starts with no key set; configureAnalytics(c) gives
\* every key c supplies the value of c and leaves every other key as it was
\* (set to the same value, or undefined); resetAnalyticsConfig leaves all four
\* keys undefined; getAnalyticsConfig returns the current configuration.  So
\* each key holds the value of the most recent call that supplied it since the
\* last reset.
IsConfigCall(name) == result'.kind = "returned" /\ result'.op[1] = name
KeyUnchanged(k) ==
  /\ k \in DOMAIN config' <=> k \in DOMAIN config
  /\ k \in DOMAIN config => config'[k] = config[k]

C23_ConfigStep ==
  /\ DOMAIN config' \subseteq ConfigKeys
  /\ IsConfigCall("configure") =>
       \A k \in ConfigKeys :
         /\ k \in DOMAIN result'.op[2] =>
              (k \in DOMAIN config' /\ config'[k] = result'.op[2][k])
         /\ k \notin DOMAIN result'.op[2] => KeyUnchanged(k)
  /\ IsConfigCall("reset") => DOMAIN config' = {}
  /\ IsConfigCall("get") =>
       /\ DOMAIN result'.value = DOMAIN config
       /\ \A k \in ConfigKeys : KeyUnchanged(k) /\ (k \in DOMAIN config => result'.value[k] = config[k])

C23_MostRecentValue == (DOMAIN config = {}) /\ [][C23_ConfigStep]_vars

\* The last call supplied isDev and dataDir only, over a configuration that
\* held db, isDev and logger: db and logger are kept, isDev is overridden.
C23_Witness ==
  /\ result.kind = "returned" /\ result.op[1] = "configure"
  /\ DOMAIN result.op[2] = {"isDev", "dataDir"}
  /\ result.op[2]["isDev"] = FALSE
  /\ DOMAIN config = ConfigKeys
  /\ config["db"] = "db2" /\ config["logger"] = "logger1"
  /\ config["isDev"] = FALSE /\ config["dataDir"] = "data"

C23_WitnessReset ==
  /\ result.kind = "returned" /\ result.op[1] = "reset"
  /\ DOMAIN config = {}

\* C24: in every persisted document averageDaily is totalCount / uniqueCount
\* rounded to an integer (at most a half away from the quotient), and 0 when
\* uniqueCount is 0.
HeaderNumber(fs, path, key) == fs[path].header[key].text
IsRounded(a, total, unique) ==
  /\ 2 * (a * unique - total) <= unique
  /\ 2 * (total - a * unique) <= unique

C24_AverageOfPersistedTotals ==
  \A p \in DOMAIN files :
    LET total == HeaderNumber(files, p, "totalCount")
        unique == HeaderNumber(files, p, "uniqueCount")
        average == HeaderNumber(files, p, "averageDaily")
    IN IF unique = 0 THEN average = 0 ELSE IsRounded(average, total, unique)

\* C25: for a record list of integer values with uniqueCount > 0, the
\* averageDaily a direct write persists is totalCount / uniqueCount rounded
\* to the nearest integer, a quotient on a half being rounded away from zero.
RoundHalfAwayFromZero(x, y) ==
  IF x >= 0 THEN (2 * x + y) \div (2 * y) ELSE 0 - ((2 * (0 - x) + y) \div (2 * y))

C25_HalfAwayFromZero ==
  (call.pc = "done" /\ UniqueDays(call.data) > 0) =>
    HeaderNumber(files, CallPath, "averageDaily") =
      RoundHalfAwayFromZero(HeaderNumber(files, CallPath, "totalCount"),
                            HeaderNumber(files, CallPath, "uniqueCount"))

\* C26: the peakDay a direct write persists for a non-empty record list is a
\* day one of the records falls on, no day has a larger sum of values, and
\* every other day with the same sum has its first record later in the list.
DaysOf(data) == {IsoDate(data[i].timestamp) : i \in DOMAIN data}
FirstRecordOn(data, day) ==
  CHOOSE i \in DOMAIN data :
    /\ IsoDate(data[i].timestamp) = day
    /\ \A j \in 1..(i - 1) : IsoDate(data[j].timestamp) # day
WrittenPeakDay == files[CallPath].header.peakDay.text

C26_PeakDayIsFirstMaximum ==
  (call.pc = "done" /\ call.data # <<>>) =>
    /\ WrittenPeakDay \in DaysOf(call.data)
    /\ \A d \in DaysOf(call.data) :
         /\ DailyTotal(call.data, d) <= DailyTotal(call.data, WrittenPeakDay)
         /\ (d # WrittenPeakDay /\ DailyTotal(call.data, d) = DailyTotal(call.data, WrittenPeakDay))
              => FirstRecordOn(call.data, WrittenPeakDay) < FirstRecordOn(call.data, d)

\* Two days with the same positive sum, the one first in the list being the
\* later day of the calendar: it is the peak day.
C26_Witness ==
  /\ call.pc = "done" /\ Len(call.data) >= 2
  /\ WrittenPeakDay = IsoDate(call.data[1].timestamp)
  /\ DailyTotal(call.data, WrittenPeakDay) > 0
  /\ \E d \in DaysOf(call.data) :
       /\ DailyTotal(call.data, d) = DailyTotal(call.data, WrittenPeakDay)
       /\ call.data[1].timestamp > call.data[FirstRecordOn(call.data, d)].timestamp

\* C27: the peakHour a direct write persists for a non-empty record list is
\* an hour in 0..23 one of the records falls in, no hour has a larger
\* sum of values, and every other hour with the same sum has its first record
\* later in the list.
HoursOf(data) == {GetHours(data[i].timestamp, tz) : i \in DOMAIN data}
FirstRecordIn(data, hour) ==
  CHOOSE i \in DOMAIN data :
    /\ GetHours(data[i].timestamp, tz) = hour
    /\ \A j \in 1..(i - 1) : GetHours(data[j].timestamp, tz) # hour
WrittenPeakHour == files[CallPath].header.peakHour.text

C27_PeakHourIsFirstMaximum ==
  (call.pc = "done" /\ call.data # <<>>) =>
    /\ WrittenPeakHour \in 0..(HoursPerDay - 1)
    /\ WrittenPeakHour \in HoursOf(call.data)
    /\ \A h \in HoursOf(call.data) :
         /\ HourlyTotal(call.data, tz, h) <= HourlyTotal(call.data, tz, WrittenPeakHour)
         /\ (h # WrittenPeakHour
               /\ HourlyTotal(call.data, tz, h) = HourlyTotal(call.data, tz, WrittenPeakHour))
              => FirstRecordIn(call.data, WrittenPeakHour) < FirstRecordIn(call.data, h)

\* C28: the days a direct write buckets the records by are the calendar days
\* of the timestamps in local time, as the hours are: uniqueCount is the
\* number of local days with a record, peakDay is one of them, and peakHour
\* is the local hour of a record.
LocalDate(ts) == IsoDate(ts + tz)
LocalDaysOf(data) == {LocalDate(data[i].timestamp) : i \in DOMAIN data}

C28_OneLocalityConvention ==
  (call.pc = "done" /\ call.data # <<>>) =>
    /\ HeaderNumber(files, CallPath, "uniqueCount") = Cardinality(LocalDaysOf(call.data))
    /\ WrittenPeakDay \in LocalDaysOf(call.data)
    /\ WrittenPeakHour \in HoursOf(call.data)

\* C29: once the writer has been started (and with it never stopped, storage
\* never failing and tracking coming to an end), from some point on every
\* buffer is empty and, for every type and month, the persisted document
\* counts all the values that were tracked for it.
AllBuffersEmpty == \A t \in Types : analyticsBuffer[t] = <<>>
AllTrackedPersisted ==
  \A t \in Types : \A key \in DOMAIN tracked[t] :
    /\ FilePath(t, key[1], key[2]) \in DOMAIN files
    /\ HeaderTotal(files, FilePath(t, key[1], key[2])) = tracked[t][key]

C29_EventualFlush ==
  <>(writeInterval # 0) => <>[](AllBuffersEmpty /\ AllTrackedPersisted)

\* C30: a file without a header block is read as null, without raising; a
\* query of a type whose documents in the range are all malformed returns
\* what it returns for a type without documents, namely no entry; and a
\* flush onto a malformed document writes the totals of its batch alone.
IsMalformed(fs, p) == p \in DOMAIN fs /\ "header" \notin DOMAIN fs[p]
ReaderStep ==
  /\ result'.kind # "none"
  /\ UNCHANGED <<files, dirs, analyticsBuffer, flights, now, call, ntracks, tz>>

C30_ReadIsNull ==
  (ReaderStep /\ result'.op[1] = "read"
     /\ IsMalformed(files, FilePath(result'.op[2], result'.op[3], result'.op[4])))
    => (result'.kind = "returned" /\ result'.value = Null)

C30_QueryAsWithoutDocuments ==
  (ReaderStep /\ result'.op[1] = "query" /\ result'.op[2].type # "all"
     /\ \A p \in MatchingDocs(result'.op[2].type, result'.op[2]) : IsMalformed(files, p))
    => (result'.kind = "returned" /\ result'.value = <<>>)

C30_FlushWritesFresh ==
  \A f \in Slots :
    (WriteStep(f) /\ IsMalformed(files, FlightPath(f)))
      => /\ ~IsMalformed(files', FlightPath(f))
         /\ HeaderTotal(files', FlightPath(f)) = SumValues(FlightData(f))

C30_MalformedIsMissing ==
  [][C30_ReadIsNull /\ C30_QueryAsWithoutDocuments /\ C30_FlushWritesFresh]_vars

\* C31: an ungrouped queryAnalytics call returns, for each queried type, one
\* point for each document of the type whose (year, month) is not before the
\* (year, month) of startDate and not after the (year, month) of endDate, and
\* no other point: a bound that is absent excludes nothing, and the document
\* of the month that contains startDate is among them.
YearMonthOf(ts) == GetFullYear(ts, tz) * MonthsPerYear + GetMonth1(ts, tz)
DocYearMonth(p) == p[2] * MonthsPerYear + ParseMonth(p[3])
DocsOfMonths(t, q) ==
  {p \in DOMAIN files :
     /\ p[1] = t
     /\ (q.start # NoDate => DocYearMonth(p) >= YearMonthOf(q.start[1]))
     /\ (q.end # NoDate => DocYearMonth(p) <= YearMonthOf(q.end[1]))}
PointDates(results, t) ==
  UNION {{results[i].data[j].date : j \in DOMAIN results[i].data} :
           i \in {k \in DOMAIN results : results[k].type = t}}

C31_RangeByYearMonth ==
  [][(QueryServiceStep /\ result'.op[1] = "query" /\ result'.kind = "returned"
        /\ result'.op[2].groupBy = "none")
       => \A t \in QueriedTypes(result'.op[2]) :
            PointDates(result'.value, t) = {MonthStart(p) : p \in DocsOfMonths(t, result'.op[2])}]_vars

\* C32: in every entry of a queryAnalytics result, summary.total is the sum
\* of the totalCounts of the documents of the type, summary.peak.value is the
\* largest of these totalCounts when none of them is negative (and never
\* below 0), the values of the returned series add up to summary.total under
\* every groupBy option, and summary.dataPoints is the length of the series.
RECURSIVE SumOver(_, _)
SumOver(S, total) ==
  IF S = {} THEN 0
  ELSE LET x == CHOOSE y \in S : TRUE IN total[x] + SumOver(S \ {x}, total)
DocTotals(t, q) == [p \in MatchingDocs(t, q) |-> HeaderTotal(files, p)]
LargestOf(f) == CHOOSE v \in {f[x] : x \in DOMAIN f} : \A x \in DOMAIN f : f[x] <= v
AtLeastZero(v) == IF v < 0 THEN 0 ELSE v
SeriesValues(series) == [i \in DOMAIN series |-> series[i].value]
IsQueryResult == QueryServiceStep /\ result'.op[1] = "query" /\ result'.kind = "returned"

C32_SumsOfEntry(e, q) ==
  LET totals == DocTotals(e.type, q) IN
  /\ DOMAIN totals # {}
  /\ e.summary.total = SumOver(DOMAIN totals, totals)
  /\ SumOver(DOMAIN e.data, SeriesValues(e.data)) = e.summary.total
  /\ e.summary.dataPoints = Len(e.data)

C32_TotalPeakAndRegrouping ==
  [][IsQueryResult =>
       \A i \in DOMAIN result'.value :
         /\ C32_SumsOfEntry(result'.value[i], result'.op[2])
         /\ result'.value[i].summary.peak.value =
              AtLeastZero(LargestOf(DocTotals(result'.value[i].type, result'.op[2])))]_vars

\* The statement without the condition on the sign: peak.value is the
\* largest of the totalCounts.
C32_PeakIsLargest ==
  [][IsQueryResult =>
       \A i \in DOMAIN result'.value :
         /\ C32_SumsOfEntry(result'.value[i], result'.op[2])
         /\ result'.value[i].summary.peak.value =
              LargestOf(DocTotals(result'.value[i].type, result'.op[2]))]_vars

\* Two documents of one year with totals 5 and 16, queried by year: one
\* point of value 21, peak 16.
C32_Witness ==
  /\ result.kind = "returned" /\ result.op[1] = "query"
  /\ result.op[2].groupBy = "year"
  /\ Len(result.value) = 1
  /\ Cardinality(MatchingDocs(PV, result.op[2])) = 2
  /\ {HeaderTotal(files, p) : p \in MatchingDocs(PV, result.op[2])} = {5, 16}
  /\ result.value[1].summary.total = 21
  /\ result.value[1].summary.peak.value = 16
  /\ result.value[1].summary.dataPoints = 1
  /\ result.value[1].data[1].value = 21

\* The same under the week option, which joins the first days of two months.
C32_WitnessWeek ==
  /\ result.kind = "returned" /\ result.op[1] = "query"
  /\ result.op[2].groupBy = "week"
  /\ Len(result.value) = 1
  /\ Cardinality(MatchingDocs(PV, result.op[2])) = 2
  /\ result.value[1].summary.dataPoints = 1
  /\ result.value[1].summary.total = 21

\* C33: while a converter runs again over the same rows, each of its writes
\* leaves the store as it was (the documents and all their header fields,
\* lastUpdated being one text in the model), and after any number of such
\* runs the store holds the documents of the months of the rows and no other.
SameCallOnly(t) == \A i \in DOMAIN queries : queries[i] = t
RepeatedWrite ==
  /\ conv.pc = "write" /\ conv' # conv
  /\ conv.n >= 2
  /\ SameCallOnly(conv.t)

C33_RepeatedRunWritesTheSame ==
  (conv.pc = "idle" /\ conv.n >= 1 /\ SameCallOnly(queries[1]))
    => DOMAIN files = {FilePath(queries[1], k[1], k[2]) : k \in RowMonths(config["db"])}

C33_ConversionIsIdempotent ==
  [](C33_RepeatedRunWritesTheSame) /\ [][RepeatedWrite => files' = files]_vars

\* Two runs of the page view conversion over rows of two months are over.
C33_Witness ==
  /\ conv.pc = "idle" /\ conv.n = 2
  /\ queries = <<PV, PV>>
  /\ Cardinality(DOMAIN files) = 2
  /\ result.kind = "returned" /\ Len(result.value) = 2

\* C34: the totalCount persisted for a type and month never exceeds the sum
\* of the values tracked for that type and month: no tracked record is
\* counted twice, however the flushes of the type overlap.
TrackedFor(p) == SumAt(tracked[p[1]], <<p[2], ParseMonth(p[3])>>)

C34_CountedAtMostOnce ==
  \A p \in DOMAIN files : HeaderTotal(files, p) <= TrackedFor(p)

\* C35: after a flush of the page views has failed and a later flush has
\* emptied the buffer, with no call made while a flush was suspended, the
\* totalCount persisted for each month is the sum of the values tracked for
\* that month: the retry counts every buffered record exactly once.
C35_RetryCountsOnce ==
  (faults > 0 /\ ~overlapped /\ ~AnyInFlight /\ analyticsBuffer[PV] = <<>>) =>
    \A key \in DOMAIN tracked[PV] :
      HeaderTotal(files, FilePath(PV, key[1], key[2])) = tracked[PV][key]

\* C36: in every document a flush has written, peakDay is the empty string
\* or a date of the document's own year and month, whatever the timezone
\* offset of the process.
PeakDayOf(p) == files[p].header.peakDay.text

C36_PeakDayInsideMonth ==
  \A p \in DOMAIN files :
    \/ PeakDayOf(p) = <<>>
    \/ /\ PeakDayOf(p)[1] = p[2]
       /\ PeakDayOf(p)[2] = ParseMonth(p[3])

\* C37: when convertAllAnalytics has returned, the paths in the pageViews,
\* events and userActivity lists of its result are together the documents
\* written during the call, also when a conversion failed after it had
\* written some of its months.
ReportedPaths ==
  UNION {SeqRange(result.value[OutField(t)]) : t \in Types}

C37_WrittenIsReported ==
  (IsConvertAll /\ conv.pc = "idle" /\ conv.n = 1 /\ result.kind = "returned") =>
    ReportedPaths = DOMAIN files

\* C38: when convertAllAnalytics has returned, the log holds one error-level
\* entry for each conversion that failed: as many entries as failed
\* conversions.
ErrorEntries == {i \in DOMAIN log : log[i].level = "error"}

C38_OneEntryPerFailure ==
  (IsConvertAll /\ conv.pc = "idle" /\ conv.n = 1) =>
    Cardinality(ErrorEntries) = faults

\* C39: an execution of flushAnalyticsBuffer(category) touches its own
\* category only.  Each of its steps leaves the documents and the buffers
\* of the other two categories as they are, what it reads is decided by the
\* documents of its category alone, and it goes on with no other category.
\* An execution suspends at storage only for a category whose buffer holds
\* records, starting with a read, so a flush of an empty buffer reads and
\* writes nothing; and no document changes outside the write of a flush.
DocsOfType(t) == [p \in {q \in DOMAIN files : q[1] = t} |-> files[p]]
OtherDocsKept(t) ==
  \A p \in DOMAIN files \cup DOMAIN files' :
    p[1] # t => (p \in DOMAIN files /\ p \in DOMAIN files' /\ files'[p] = files[p])
OtherBuffersKept(t) ==
  \A u \in Types \ {t} : analyticsBuffer'[u] = analyticsBuffer[u]

C39_CategoryStep(f) ==
  (FlushStep(f) /\ flights[f].rest = <<>>) =>
    /\ OtherDocsKept(flights[f].t)
    /\ OtherBuffersKept(flights[f].t)
    /\ flights'[f].pc # "idle" =>
         (flights'[f].t = flights[f].t /\ flights'[f].rest = <<>>)
    /\ (flights[f].pc = "read" /\ faults' = faults) =>
         flights'[f].extra =
           MergeExtra(ReadAnalytics(DocsOfType(flights[f].t), flights[f].t,
                                    FlightKey(f)[1], FlightKey(f)[2]),
                      FlightData(f))

C39_StartStep(f) ==
  (~InFlight(f) /\ flights'[f].pc # "idle") =>
    /\ flights'[f].pc = "read"
    /\ analyticsBuffer'[flights'[f].t] # <<>>
    /\ files' = files

C39_FlushFrame ==
  [][/\ \A f \in Slots : C39_CategoryStep(f) /\ C39_StartStep(f)
     /\ files' # files => \E f \in Slots : WriteStep(f)]_vars

\* A flush of the page views alone is about to write while events are buffered.
C39_Witness ==
  \E f \in Slots :
    /\ flights[f].pc = "write"
    /\ flights[f].t = PV
    /\ flights[f].rest = <<>>
    /\ analyticsBuffer[EV] # <<>>

\* The flush of the page views has written and emptied its buffer; the events
\* tracked before it are still buffered and no event document exists.
C39_WitnessDone ==
  /\ ~AnyInFlight /\ ~overlapped /\ faults = 0
  /\ analyticsBuffer[PV] = <<>>
  /\ analyticsBuffer[EV] # <<>>
  /\ \E p \in DOMAIN files : p[1] = PV
  /\ now = 1

====
